---- MODULE Spec2Model ----
(***************************************************************************)
(* A model of the drand go-clients library: the client builder             *)
(* (client/client.go), the caching client and its cache (client/cache.go)  *)
(* and the verifying client (client/verify.go).                            *)
(*                                                                         *)
(* Each component has its own specification over its own variables; the    *)
(* variables of the other components stay at their idle values:            *)
(*   BuilderSpec  New(options...) followed by makeClient                   *)
(*   CacheSpec    cachingClient.Get / Watch over a bounded cache           *)
(*   VerifySpec   verifyingClient.Get / Watch, alone or behind the cache   *)
(***************************************************************************)
EXTENDS Integers, Sequences, FiniteSets, TLC

VARIABLES
    cfg,        \* builder: the clientConfig being filled by the options
    bphase,     \* builder: "options" | "failed" (an option returned an error) | "made"
    bres,       \* builder: what New returned
    lastOpt,    \* builder: the option applied last, with its argument
    nopts,      \* builder: number of options applied so far
    ccache,     \* cache: the entries of the Cache, round -> result (NilRes: no entry)
    csize,      \* cache: the size given to makeCache
    cphase,     \* cache: "idle" | "returned" (an operation has returned, see cout)
    cout,       \* cache: the operation that returned last and what it returned
    track,      \* cache, history: the round r > 0 whose Gets are observed
    fetched,    \* cache, history: what the last successful Get(track) returned
    watched,    \* cache, history: the consumer received round track from Watch
    venv,       \* verifier: strict, the scheme being chained, and the stack it is in
    pot,        \* verifier: pointOfTrust (NilRes: nil)
    vcache,     \* verifier: the cache of the caching client above the verifier
    wstate,     \* verifier: the Watch channel, "none" | "open" | "dropped" | "closed"
    vphase,     \* verifier: "idle" | "returned" | "stuck"
    vout,       \* verifier: the operation that returned last and what it handed out
    rinfo,      \* gossip validator: info, the root of trust (present FALSE: nil)
    rnow,       \* gossip validator: clk.Now()
    rcache,     \* gossip validator: the cache it was given
    rsize,      \* gossip validator: the size of that cache (0: none)
    rphase,     \* gossip validator: "idle" | "returned"
    rout,       \* gossip validator: the message validated last and the verdict
    gchained,   \* gossip client: the scheme of info is chained
    glatest,    \* gossip client: c.latest
    gctx,       \* gossip client: the context of the dispatch goroutine, "live" | "cancelled"
    gloop,      \* gossip client: the dispatch goroutine, "running" | "exited"
    gsubs,      \* gossip client: the subscribers, their channels and goroutines
    gcloses,    \* gossip client: how many calls of Close have returned
    gpanic,     \* gossip client: the panic that ended the process ("": none)
    gseen,      \* gossip client, history: what the dispatch goroutine has seen
    hhash,      \* HTTP client: the chain hash passed to New (NilHash: none)
    hinfo,      \* HTTP client: h.chainInfo
    hphase,     \* HTTP client: "new" | "ready" | "failed"
    hfetched,   \* HTTP client, history: what the relay answered to the info request
    hdone,      \* HTTP client: h.done is closed
    hcloses,    \* HTTP client: how many calls of Close have returned
    hget,       \* HTTP client: the Get in progress
    hout,       \* HTTP client: what the last Get returned
    hpanic,     \* HTTP client: the panic that ended the process ("": none)
    orank,      \* optimizing client: the backends by measured speed, the best first
    oget,       \* optimizing client: the Get in progress
    oout,       \* optimizing client: what the last Get returned
    wpassive,   \* optimizing Watch: the backends marked passive
    wretry,     \* optimizing Watch: a positive retry interval is configured
    wst,        \* optimizing Watch: the output, "none" | "open" | "waiting" | "closed"
    wactive,    \* optimizing Watch: the backend whose stream is the active one (0: none)
    wup,        \* optimizing Watch: the stream of each backend, "none" | "open" | "closed"
    wctx,       \* optimizing Watch: the context passed to Watch, "live" | "cancelled"
    wlatest,    \* optimizing Watch: the highest round emitted (-1: none yet)
    wout,       \* optimizing Watch: the output channel
    wgot,       \* optimizing Watch, history: what the consumer received
    aauto,      \* watch aggregator: autoWatch
    awc,        \* watch aggregator: the watcher of the watcher client is an io.Closer
    asub,       \* watch aggregator: the upstream subscription, "none" | "open" | "cancelled"
    awatchers,  \* watch aggregator: number of callers that called Watch
    areach,     \* watch aggregator: the backends are reachable
    ayield,     \* watch aggregator, history: the rounds the upstream yielded with no caller watching
    aclosed,    \* watch aggregator: the clients of the stack that are closed
    aout,       \* watch aggregator: what the last Get returned
    averified,  \* built client, history: the rounds whose cache entry passed a verifying client
    kchained,   \* trust walk: the scheme is chained
    kcached,    \* trust walk: the indirect client is the stack above the verifier, which re-enters it
    kpot,       \* trust walk: v.pointOfTrust (NilRes: nil)
    klock,      \* trust walk: the holder of v.potLk ("": unlocked)
    kw,         \* trust walk: the calls of getTrustedPreviousSignature in progress, by goroutine
    mclients,   \* heartbeat: c.clients, the kind of each client
    mnext,      \* heartbeat: c.next, kept modulo len(c.clients)
    mctx,       \* heartbeat: the context of MeasureHeartbeats, "live" | "cancelled"
    mpc,        \* heartbeat: where startObserve is, "none" | "check" | "sleep" | "returned"
    mlast,      \* heartbeat, history: the client of the last turn of the loop and how the turn went
    npc,        \* relay node: where background is, "watch" | "select" | "sleep" | "returned"
    nch,        \* relay node: the channel the last Watch returned
    nsrc,       \* relay node: the results the backing client has not delivered yet
    ndone,      \* relay node: g.done is closed
    ncons,      \* relay node, history: the results received from the watch channels
    npub,       \* relay node, history: the results handed to Publish
    pctx,       \* polling Watch: the context passed to Watch, "live" | "cancelled"
    ppoll,      \* polling Watch: where the goroutine of PollingWatcher is
    pch,        \* polling Watch: the channel of PollingWatcher, buffer and closed flag
    phttp,      \* polling Watch: where the goroutine of httpClient.Watch is
    pout,       \* polling Watch: the channel httpClient.Watch returned is closed
    pcache,     \* polling Watch: where cachingClient.Watch is
    pout2,      \* polling Watch: the channel cachingClient.Watch returned is closed
    pgot        \* polling Watch, history: the consumer has received a result

bvars == <<cfg, bphase, bres, lastOpt, nopts>>
cvars == <<ccache, csize, cphase, cout, track, fetched, watched>>

vvars == <<venv, pot, vcache, wstate, vphase, vout>>

rvars == <<rinfo, rnow, rcache, rsize, rphase, rout>>

gvars == <<gchained, glatest, gctx, gloop, gsubs, gcloses, gpanic, gseen>>

hvars == <<hhash, hinfo, hphase, hfetched, hdone, hcloses, hget, hout, hpanic>>

ovars == <<orank, oget, oout>>

wvars == <<wpassive, wretry, wst, wactive, wup, wctx, wlatest, wout, wgot>>

avars == <<aauto, awc, asub, awatchers, areach, ayield, aclosed, aout, averified>>

kvars == <<kchained, kcached, kpot, klock, kw>>

mvars == <<mclients, mnext, mctx, mpc, mlast>>

nvars == <<npc, nch, nsrc, ndone, ncons, npub>>

pvars == <<pctx, ppoll, pch, phttp, pout, pcache, pout2, pgot>>

vars == <<bvars, cvars, vvars, rvars, gvars, hvars, ovars, wvars, avars, kvars, mvars, nvars, pvars>>

(***************************************************************************)
(* Bounds                                                                  *)
(***************************************************************************)
MaxOpts == 3        \* options passed to New
MaxClients == 2     \* clients passed to From
MaxCRound == 2      \* highest round the client wrapped by the caching client answers with
CacheCap == 2       \* largest cache size
MaxRound == 3       \* latest round of the chain
MaxGRound == 2      \* highest round of a gossip message
MaxNow == 3         \* latest time of the clock
WatchBufferSize == 1 \* capacity of the channels of the gossip client's Watch (100 in the code)
MaxBackends == 3    \* clients wrapped by the optimizing client
MaxHClients == 3    \* clients given to MeasureHeartbeats
MaxResults == 3     \* results the client behind the relay node delivers

(***************************************************************************)
(* Chain info and chain hash                                               *)
(***************************************************************************)
Keys == {"pkA", "pkB"}
ValidScheme == "bls-unchained-g1-rfc9380"

\* *chain.Info values; NilInfo is the nil pointer
Infos == [pk : Keys, scheme : {ValidScheme}] \cup {[pk |-> "pkA", scheme |-> "unknown-scheme"]}
NilInfo == [pk |-> "nil", scheme |-> "nil"]

\* chain.Info.Hash(): a digest of the descriptor's fields
Hash(info) == <<"hash", info.pk, info.scheme>>
\* a nil []byte
NilHash == <<>>
\* a hash that is the digest of none of the chain infos
ForeignHash == <<"hash", "pkZ", ValidScheme>>
Hashes == {Hash(i) : i \in Infos} \cup {ForeignHash}

\* what a backend's Info(ctx) returns: (info, nil), (nil, err) or (nil, nil)
InfoAnswers == [ok : {TRUE}, info : Infos \cup {NilInfo}] \cup [ok : {FALSE}, info : {NilInfo}]

RECURSIVE SeqsUpTo(_, _)
SeqsUpTo(S, n) == IF n = 0 THEN {<<>>}
                  ELSE LET shorter == SeqsUpTo(S, n - 1)
                       IN shorter \cup {Append(s, x) : s \in {t \in shorter : Len(t) = n - 1}, x \in S}

(***************************************************************************)
(* clientConfig and the options (client/client.go)                         *)
(***************************************************************************)
\* cfg := clientConfig{cacheSize: 32}
InitCfg == [clients |-> <<>>, watcher |-> "none", chainHash |-> NilHash,
            chainInfo |-> NilInfo, insecure |-> FALSE, cacheSize |-> 32]

OptOk(c) == [cfg |-> c, err |-> ""]
OptErr(c, e) == [cfg |-> c, err |-> e]

From(c, cl) == OptOk([c EXCEPT !.clients = cl])

Insecurely(c) == OptOk([c EXCEPT !.insecure = TRUE])

WithCacheSize(c, size) == OptOk([c EXCEPT !.cacheSize = size])

WithChainHash(c, chainHash) ==
    IF c.chainInfo # NilInfo /\ Hash(c.chainInfo) # chainHash
    THEN OptErr(c, "refusing to override group with non-matching hash")
    ELSE OptOk([c EXCEPT !.chainHash = chainHash])

\* WithChainInfo without its comparison against the configured chain hash
WithChainInfoUnchecked(c, chainInfo) == OptOk([c EXCEPT !.chainInfo = chainInfo])

WithChainInfo(c, chainInfo) ==
    IF c.chainHash # NilHash /\ c.chainHash # Hash(chainInfo)
    THEN OptErr(c, "refusing to override hash with non-matching group")
    ELSE OptOk([c EXCEPT !.chainInfo = chainInfo])

\* the WatcherCtor either builds a watcher or returns an error
WithWatcher(c, w) == OptOk([c EXCEPT !.watcher = w])

(***************************************************************************)
(* makeClient (client/client.go)                                           *)
(***************************************************************************)
\* the loop of tryPopulateInfo; st.err is the named return value err
RECURSIVE PopulateLoop(_, _, _)
PopulateLoop(clients, i, st) ==
    IF i > Len(clients) THEN st
    ELSE IF clients[i].ok
         THEN [chainInfo |-> clients[i].info, err |-> st.err]      \* bare return
         ELSE PopulateLoop(clients, i + 1, [chainInfo |-> clients[i].info, err |-> TRUE])

tryPopulateInfo(c) ==
    IF c.chainInfo = NilInfo
    THEN PopulateLoop(c.clients, 1, [chainInfo |-> c.chainInfo, err |-> FALSE])
    ELSE [chainInfo |-> c.chainInfo, err |-> FALSE]

\* makeCache: lru.NewARC refuses a negative size, size 0 gives the nilCache
makeCacheFails(size) == size < 0

\* makeWatcherClient: "" when the watcher client is built
makeWatcherClient(c) ==
    IF c.chainInfo = NilInfo THEN "chain info cannot be nil"
    ELSE IF c.watcher = "ctorErr" THEN "watcher constructor error"
    ELSE ""

Made(c, status, err, n) == [cfg |-> c, status |-> status, err |-> err, verifiers |-> n]

\* the root-of-trust test forgetting that a chain info is a root of trust
NoRootOfTrustIgnoringInfo(c) == ~c.insecure /\ c.chainHash = NilHash

NoRootOfTrust(c) == ~c.insecure /\ c.chainHash = NilHash /\ c.chainInfo = NilInfo

\* the points-of-contact test left out
NoPointsOfContactUnchecked(c) == FALSE

NoPointsOfContact(c) == Len(c.clients) = 0 /\ c.watcher = "none"

makeClient(c) ==
    IF NoRootOfTrust(c)
    THEN Made(c, "err", "no root of trust specified", 0)
    ELSE IF NoPointsOfContact(c)
    THEN Made(c, "err", "no points of contact specified", 0)
    ELSE IF makeCacheFails(c.cacheSize)
    THEN Made(c, "err", "invalid cache size", 0)
    ELSE LET p == tryPopulateInfo(c)
             c1 == [c EXCEPT !.chainInfo = p.chainInfo]
         IN IF p.err THEN Made(c1, "err", "could not populate chain info", 0)
            ELSE LET werr == IF c1.watcher # "none" THEN makeWatcherClient(c1) ELSE ""
                     n == Len(c1.clients) + (IF c1.watcher # "none" THEN 1 ELSE 0)
                 IN IF werr # "" THEN Made(c1, "err", werr, 0)
                    \* cfg.chainInfo.Scheme with a nil chainInfo
                    ELSE IF c1.chainInfo = NilInfo THEN Made(c1, "panic", "nil pointer dereference", 0)
                    ELSE IF c1.chainInfo.scheme # ValidScheme
                    THEN Made(c1, "err", "invalid scheme name in makeClient", 0)
                    \* newOptimizingClient refuses an empty set of verifiers
                    ELSE IF n = 0 THEN Made(c1, "err", "missing clients", 0)
                    ELSE Made(c1, "ok", "", n)

(***************************************************************************)
(* Results (drand.Result)                                                  *)
(***************************************************************************)
\* the group's signature of round j, bytes that are no signature, no bytes
Sig(j) == <<"sig", j>>
BadSig == <<"bad">>
EmptySig == <<>>
GenesisSeed == <<"seed">>

\* crypto.RandomnessFromSignature: the hash of the signature
RandomnessFromSignature(sig) == <<"sha256", sig>>
\* randomness bytes that are the hash of no signature
BogusRandomness == <<"bogus">>

\* typ: the concrete type behind the drand.Result interface, "RandomData" for
\* *client.RandomData and "Result" for any other implementation (mock.Result)
MkRes(typ, round, sig, prev, rand) ==
    [typ |-> typ, round |-> round, sig |-> sig, prev |-> prev, rand |-> rand]
\* the nil drand.Result
NilRes == MkRes("nil", 0, EmptySig, EmptySig, EmptySig)

(***************************************************************************)
(* Cache and caching client (client/cache.go)                              *)
(***************************************************************************)
CRounds == 0..MaxCRound

\* the results the wrapped client may answer with: any round, two contents each
CResults == UNION {{MkRes("Result", j, s, EmptySig, RandomnessFromSignature(s)) :
                        s \in {Sig(j), BadSig}} : j \in CRounds}

\* what the wrapped client's Get returns: (val, err)
CAnswers == [err : BOOLEAN, res : CResults \cup {NilRes}]

EmptyCache == [k \in CRounds |-> NilRes]
CacheKeys(cache) == {k \in DOMAIN cache : cache[k] # NilRes}

\* typedCache.TryGet / nilCache.TryGet
TryGet(cache, size, round) == IF size = 0 THEN NilRes ELSE cache[round]

\* an Add that stores every round and never evicts
AddUnbounded(cache, size, round, result) ==
    IF size = 0 THEN {cache} ELSE {[cache EXCEPT ![round] = result]}

\* typedCache.Add / nilCache.Add: the caches Add may leave. The ARC cache holds
\* at most size entries; which entry it evicts to make room depends on its
\* recency and frequency lists, here any of the entries present.
Add(cache, size, round, result) ==
    IF size = 0 THEN {cache}
    ELSE IF cache[round] # NilRes \/ Cardinality(CacheKeys(cache)) < size
    THEN {[cache EXCEPT ![round] = result]}
    ELSE {[cache EXCEPT ![victim] = NilRes, ![round] = result] : victim \in CacheKeys(cache)}

\* cachingClient.Get: err == nil && val != nil
InsertsOnGet(a) == ~a.err /\ a.res # NilRes

\* the key of the cache entry written by cachingClient.Get: the requested round
GetKeyRequested(round, val) == round

\* the key of the cache entry written by cachingClient.Get: val.GetRound()
GetKey(round, val) == val.round

\* a Watch that hands the result over without storing it
WatchAddSkipped(cache, size, result) == {cache}

\* c.cache.Add(result.GetRound(), result) in the loop of cachingClient.Watch
WatchAdd(cache, size, result) == Add(cache, size, result.round, result)

(***************************************************************************)
(* The chain and the backend of the verifying client                       *)
(***************************************************************************)
\* the keys of the cache above the verifier: every round a Get may ask for
VKeys == 0..(MaxRound + 1)
\* large enough never to evict
VCacheSize == MaxRound + 2
\* nested calls of verifyingClient.Get through its indirect client: a walk
\* that ends asks for ever lower rounds, so deeper nesting is a walk that
\* does not end
MaxDepth == MaxRound + 2

\* the previous signature of round j in the chain
PrevOf(j) == IF j = 1 THEN GenesisSeed ELSE IF j > 1 THEN Sig(j - 1) ELSE EmptySig

\* the beacon of round j as the chain produced it; beacons of an unchained
\* scheme carry no previous signature
Beacon(chained, typ, j) ==
    MkRes(typ, j, Sig(j), IF chained THEN PrevOf(j) ELSE EmptySig,
          RandomnessFromSignature(Sig(j)))

\* scheme.VerifyBeacon that accepts everything
VerifyBeaconSkipped(chained, ps, round, sig) == TRUE

\* scheme.VerifyBeacon(b, ipk): the group signed rounds 1..MaxRound, an
\* unchained scheme signs the round, a chained one the previous signature too
VerifyBeacon(chained, ps, round, sig) ==
    /\ round \in 1..MaxRound
    /\ sig = Sig(round)
    /\ chained => ps = PrevOf(round)

\* what a backend may hand to the verifier for round j: the beacon, the beacon
\* with other randomness bytes in either result type, a wrong signature, a
\* wrong previous signature
BResultsOf(chained, j) ==
    { Beacon(chained, "RandomData", j),
      [Beacon(chained, "RandomData", j) EXCEPT !.rand = BogusRandomness],
      [Beacon(chained, "Result", j) EXCEPT !.rand = BogusRandomness],
      [Beacon(chained, "RandomData", j) EXCEPT !.sig = BadSig,
                                               !.rand = RandomnessFromSignature(BadSig)] }
    \cup (IF chained THEN {[Beacon(chained, "RandomData", j) EXCEPT !.prev = BadSig]} ELSE {})
BResults(chained) == UNION {BResultsOf(chained, j) : j \in 0..MaxRound}

BErr == [err |-> TRUE, res |-> NilRes]
BOk(r) == [err |-> FALSE, res |-> r]
\* what the backend's Get returns: (val, err)
BAnswers(chained) == {BOk(r) : r \in BResults(chained)} \cup {BErr}

\* how the network behaves during one operation: Info fails, or Info answers
\* and the rounds fetched for the walk are answered honestly, with an error,
\* with a forged signature, or with the beacon of the next round
NetModes == {"noInfo", "honest", "fail", "forged", "shifted"}
\* without strict no round is fetched for a walk
NetModesOf(strict) == IF strict THEN NetModes ELSE {"noInfo", "honest"}
WalkAnswer(chained, mode, round) ==
    IF mode = "honest" /\ round \in 1..MaxRound THEN BOk(Beacon(chained, "RandomData", round))
    ELSE IF mode = "forged" /\ round \in 1..MaxRound
    THEN BOk([Beacon(chained, "RandomData", round) EXCEPT !.sig = BadSig])
    ELSE IF mode = "shifted" /\ round + 1 \in 1..MaxRound
    THEN BOk(Beacon(chained, "RandomData", round + 1))
    ELSE BErr

VEnvs == [strict : BOOLEAN, chained : BOOLEAN, stack : {"direct", "cached"}]
VerifyIdleOut == [op |-> "none", round |-> 0, ok |-> FALSE, err |-> "", res |-> NilRes,
                  hit |-> FALSE, sent |-> -1, valid |-> FALSE, verified |-> FALSE]

(***************************************************************************)
(* Gossip validator (client/lp2p/validator.go)                             *)
(***************************************************************************)
GRounds == 0..MaxGRound

\* info.GenesisTime and info.Period of the chain, in seconds
GenesisTime == 1
Period == 2

\* commonutils.TimeOfRound(period, genesis, round)
TimeOfRound(period, genesis, round) ==
    IF round = 0 THEN genesis ELSE genesis + (round - 1) * period

\* the root of trust given to the validator: nil, or the info of a chain
RInfos == {[present |-> FALSE, chained |-> FALSE]} \cup [present : {TRUE}, chained : BOOLEAN]

\* a pubsub message: bytes that do not decode, or a PublicRandResponse
Undecodable == [decodes |-> FALSE, round |-> 0, sig |-> EmptySig, prev |-> EmptySig]
Messages ==
    {Undecodable} \cup
    UNION {[decodes : {TRUE}, round : {j}, sig : {Sig(j), BadSig}, prev : {PrevOf(j), BadSig}]
           : j \in GRounds}

\* what the cache may hold under key k: a *client.RandomData or a result of
\* another type, with any round, signature, previous signature and randomness
REntries(k) ==
    UNION {[typ : {"RandomData", "Result"},
            round : {k, (k + 1) % (MaxGRound + 1)},
            sig : {sig},
            prev : {PrevOf(k), BadSig},
            rand : {RandomnessFromSignature(sig), BogusRandomness}]
           : sig \in {Sig(k), BadSig}}

\* time.Unix(timeOfRound, 0).After(timeNow) that never holds
InFutureNever(now, round) == FALSE

\* time.Unix(timeOfRound, 0).After(timeNow)
InFuture(now, round) == TimeOfRound(Period, GenesisTime, round) > now

\* info == nil that never holds
NoTrustRootNever(info) == FALSE

\* info == nil
NoTrustRoot(info) == ~info.present

\* a comparison with the cached entry that always finds it equal
SameAsCachedAlways(current, m) == TRUE

\* the comparison of a message with the cache entry of its round: signatures
\* only for an entry that is not a *client.RandomData, otherwise round,
\* randomness, signature and previous signature
SameAsCached(current, m) ==
    IF current.typ # "RandomData"
    THEN m.sig = current.sig
    ELSE /\ current.round = m.round
         /\ current.rand = RandomnessFromSignature(m.sig)
         /\ current.sig = m.sig
         /\ current.prev = m.prev

\* scheme.VerifyBeacon(rand, info.PublicKey) that accepts everything
ValidatorVerifiesAlways(info, m) == TRUE

\* scheme.VerifyBeacon(rand, info.PublicKey)
ValidatorVerifies(info, m) == VerifyBeacon(info.chained, m.prev, m.round, m.sig)

\* the function randomnessValidator returns, applied to message m
randomnessValidator(info, cache, size, now, m) ==
    IF ~m.decodes THEN "reject"
    ELSE IF NoTrustRoot(info) THEN "accept"
    ELSE IF InFuture(now, m.round) THEN "reject"
    ELSE IF TryGet(cache, size, m.round) # NilRes
         THEN IF SameAsCached(TryGet(cache, size, m.round), m) THEN "ignore" ELSE "reject"
    ELSE IF ValidatorVerifies(info, m) THEN "accept"
    ELSE "reject"

ValidatorIdleOut == [m |-> Undecodable, verdict |-> "none"]

\* the validator before it is registered
ValidatorIdle ==
    /\ rinfo = [present |-> FALSE, chained |-> FALSE]
    /\ rnow = 0
    /\ rcache = [k \in GRounds |-> NilRes]
    /\ rsize = 0
    /\ rphase = "idle"
    /\ rout = ValidatorIdleOut

(***************************************************************************)
(* Gossip client (client/lp2p/client.go)                                   *)
(***************************************************************************)
\* the callers of Watch
Watchers == {"w1", "w2"}

\* a caller of Watch: st is "none" before Watch is called, "watching" while
\* the goroutine of Watch runs, "returned" once it has returned and closed
\* outerCh; inMap says that innerCh is in c.subs.M; last is the round the
\* consumer received last and ordered says that every round it received was
\* higher than the one before
NoWatch == [st |-> "none", inMap |-> FALSE, innerClosed |-> FALSE, inner |-> <<>>,
            outer |-> <<>>, ctxDone |-> FALSE, last |-> 0, ordered |-> TRUE]

\* the messages the subscription hands to the dispatch goroutine
GMessages == Messages

\* c.latest >= rand.Round that never holds
StaleRoundNever(latest, round) == FALSE

\* c.latest >= rand.Round
StaleRound(latest, round) == latest >= round

\* a send that always takes the default case
TrySendDrops(ch, x) == ch

\* select { case ch <- x: default: }: a send that does not block
TrySend(ch, x) == IF Len(ch) < WatchBufferSize THEN Append(ch, x) ELSE ch

\* history of the dispatch: dropped is the highest round of a message dropped
\* for its signature, genuine says that every message whose round latest took
\* was a beacon of the chain
NothingSeen == [dropped |-> 0, genuine |-> TRUE]

\* the gossip client before NewWithPubsub is called
GossipIdle ==
    /\ gchained = FALSE
    /\ glatest = 0
    /\ gctx = "live"
    /\ gloop = "running"
    /\ gsubs = [w \in Watchers |-> NoWatch]
    /\ gcloses = 0
    /\ gpanic = ""
    /\ gseen = NothingSeen

(***************************************************************************)
(* HTTP client (httpClient)                                                *)
(***************************************************************************)
\* what the relay answers to the info request: no usable response, or a chain
\* info that may lack the public key and may be of another beacon id than the
\* default one
NoInfoAnswer == [kind |-> "none", info |-> NilInfo, key |-> FALSE, defaultID |-> FALSE]
HInfoAnswers ==
    {[NoInfoAnswer EXCEPT !.kind = "error"]} \cup
    [kind : {"info"}, info : Infos, key : BOOLEAN, defaultID : BOOLEAN]

\* what the relay answers to a request for a round: no usable response, or a
\* beacon of any round whose signature may be empty and whose randomness field
\* is whatever the relay wrote
HGetAnswers ==
    {[ok |-> FALSE, res |-> NilRes]} \cup
    [ok : {TRUE},
     res : UNION {{MkRes("RandomData", j, sig, EmptySig, BogusRandomness) :
                      sig \in {Sig(j), EmptySig}} : j \in GRounds}]

\* the comparison of the fetched info with the chain hash, left out
HashMismatchIgnored(info, chainHash) == FALSE

\* !bytes.Equal(chainInfo.Hash(), chainHash)
HashMismatch(info, chainHash) == Hash(info) # chainHash

\* what the goroutine of FetchChainInfo sends on resC for the relay's answer a
FetchChainInfo(chainHash, a) ==
    IF a.kind = "error" THEN [err |-> "doing request", info |-> NilInfo]
    ELSE IF ~a.key THEN [err |-> "no valid key", info |-> NilInfo]
    ELSE IF chainHash = NilHash
         THEN IF ~a.defaultID
              THEN [err |-> "not the default chain", info |-> NilInfo]
              ELSE [err |-> "", info |-> a.info]
    ELSE IF HashMismatch(a.info, chainHash)
         THEN [err |-> "not the expected drand group", info |-> NilInfo]
    ELSE [err |-> "", info |-> a.info]

\* what the goroutine of Get sends on resC for the relay's answer a
GetResponse(a) ==
    IF ~a.ok THEN [err |-> "request failed", res |-> NilRes]
    ELSE IF a.res.sig = EmptySig
         THEN [err |-> "insufficient response", res |-> NilRes]
    ELSE [err |-> "", res |-> [a.res EXCEPT !.rand = RandomnessFromSignature(a.res.sig)]]

\* resC of the Get in progress, when nothing has been sent on it
EmptyResC == [err |-> "empty", res |-> NilRes]
NoGet == [st |-> "none", round |-> 0, resC |-> EmptyResC, closedAtCall |-> FALSE]
HttpIdleOut == [op |-> "none", round |-> 0, err |-> "", res |-> NilRes, closedAtCall |-> FALSE]

\* the HTTP client before it is constructed
HttpIdle ==
    /\ hhash = NilHash
    /\ hinfo = NilInfo
    /\ hphase = "new"
    /\ hfetched = NoInfoAnswer
    /\ hdone = FALSE
    /\ hcloses = 0
    /\ hget = NoGet
    /\ hout = HttpIdleOut
    /\ hpanic = ""

(***************************************************************************)
(* Optimizing client. Its implementation is not among the sources (only    *)
(* its tests and its callers are): it is modelled from the specification,  *)
(* sections 4.6 (Get policy, Watch policy) and 7 (propagation policy).     *)
(***************************************************************************)
Backends == 1..MaxBackends

\* the rankings of the backends: every order of them without repetition
Rankings == {r \in [Backends -> Backends] : \A i, j \in Backends : i # j => r[i] # r[j]}

\* how many requests of one Get are in flight together (top-k, default k = 2)
RaceWidth == 2

\* how an attempt ends: a (verified) success, a network error, or a
\* verification or protocol error
AttemptAnswers == {"ok", "network", "verification"}

\* the errors after which the request falls through to the next backend, none
FallsThroughNever(kind) == FALSE

\* the errors after which the request falls through to the next backend:
\* "The optimizer retries across backends for Network errors only"
FallsThrough(kind) == kind = "network"

\* the best-ranked backend not attempted yet (0: none is left)
NextBackend(rank, attempted) ==
    IF \A b \in Backends : b \in attempted THEN 0
    ELSE rank[CHOOSE i \in Backends :
                 /\ rank[i] \notin attempted
                 /\ \A j \in Backends : rank[j] \notin attempted => i <= j]

NoRace == [st |-> "idle", attempted |-> {}, inflight |-> {}, failed |-> {}, attempts |-> 0]
OptIdleOut == [op |-> "none", ok |-> FALSE, err |-> "", by |-> 0, attempts |-> 0,
               failed |-> {}, first |-> 0]

\* the optimizing client before it is constructed
OptIdle ==
    /\ orank = [b \in Backends |-> b]
    /\ oget = NoRace
    /\ oout = OptIdleOut

\* the rounds the streams of the backends deliver
WRounds == 0..MaxGRound

\* the test that lets every round through
NotNewerNever(latest, round) == FALSE

\* a round that is not strictly greater than the highest round emitted is
\* discarded ("de-duplicated by round", "discard any round not strictly
\* greater than their own highest delivered round")
NotNewer(latest, round) == round <= latest

\* the backends that take part as active stream, in the order of the ranking
ActiveOrder(rank, passive) ==
    SelectSeq([i \in Backends |-> rank[i]], LAMBDA b : b \notin passive)

\* the backend promoted after backend b: the next one of the ranking among
\* those in the set healthy, b itself when it is the only one (0: none)
NextBest(rank, passive, healthy, b) ==
    LET order == ActiveOrder(rank, passive)
        n == Len(order)
        at == IF \E i \in 1..n : order[i] = b
              THEN CHOOSE i \in 1..n : order[i] = b ELSE 0
        after == [k \in 1..n |-> order[((at + k - 1) % n) + 1]]
        ok == {k \in 1..n : after[k] \in healthy}
    IN IF ok = {} THEN 0 ELSE after[CHOOSE k \in ok : \A j \in ok : k <= j]

\* the closure of the upstream reaches the output although a retry interval is
\* configured
RetriesNever(retry) == FALSE

\* "When auto_watch_retry is positive, a closed upstream is re-opened after
\* that delay"
Retries(retry) == retry

\* what the consumer received: the last round, whether every round was higher
\* than the one before, how many rounds (counted up to 2); reopened and fresh
\* say that the upstream was re-opened and that a round was emitted since
NothingReceived == [last |-> -1, ordered |-> TRUE, n |-> 0, reopened |-> FALSE, fresh |-> FALSE]

\* the Watch of the optimizing client before it is called
MergeIdle ==
    /\ wpassive = {}
    /\ wretry = FALSE
    /\ wst = "none"
    /\ wactive = 0
    /\ wup = [b \in Backends |-> "none"]
    /\ wctx = "live"
    /\ wlatest = -1
    /\ wout = <<>>
    /\ wgot = NothingReceived

\* the clients of the stack makeClient builds, from the outside in: the watch
\* aggregator, the caching client (with a positive cache size), the optimizing
\* client, the verifiers over the sources, the last source being the watcher
\* client with its watcher and its embedded client
Stack == {"aggregator", "caching", "optimizing", "verifier", "source",
          "watcherVerifier", "watcherClient", "watcher", "embedded"}

\* watcherClient.Close: the watcher, when it is an io.Closer, then c.Client
WatcherClose(isCloser) ==
    {"watcherClient", "embedded"} \cup (IF isCloser THEN {"watcher"} ELSE {})

\* verifyingClient has no Close of its own: the Close of the embedded
\* drand.Client, its source, is the one called
VerifierClose(verifier, sourceClose) == {verifier} \cup sourceClose

\* the Close of the optimizing client closes the clients it was given
OptimizingClose(isCloser) ==
    {"optimizing"} \cup VerifierClose("verifier", {"source"})
                   \cup VerifierClose("watcherVerifier", WatcherClose(isCloser))

\* a Close of the caching client that closes nothing below it
CachingCloseOnlySelf(wrappedClose) == {"caching"}

\* cachingClient.Close: return c.Client.Close()
CachingClose(wrappedClose) == {"caching"} \cup wrappedClose

\* a makeOptimizingClient that always inserts the caching client
HasCachingLayerAlways(size) == TRUE

\* makeOptimizingClient: if cfg.cacheSize > 0 { c, err = NewCachingClient(l, c, cache) }
HasCachingLayer(size) == size > 0

\* the client makeOptimizingClient returns, which the aggregator wraps
Underlying(size) == IF HasCachingLayer(size) THEN "caching" ELSE "optimizing"
UnderlyingClose(size, isCloser) ==
    IF HasCachingLayer(size)
    THEN CachingClose(OptimizingClose(isCloser))
    ELSE OptimizingClose(isCloser)

\* an aggregator that opens no subscription of its own
AutoWatchesNever(auto) == FALSE

\* the aggregator opens the upstream subscription at construction when
\* auto_watch is set
AutoWatches(auto) == auto

\* the rounds the upstream yields
ARounds == 1..MaxCRound
\* the result of round r the chain holds
AResult(round) ==
    MkRes("Result", round, Sig(round), EmptySig, RandomnessFromSignature(Sig(round)))

\* what a Get returned: ok, whether a backend was called, whether the round
\* had been yielded to the auto-watch and was in the cache, whether the
\* backends were reachable; got: the rounds whose Get has succeeded so far
AggIdleOut == [op |-> "none", round |-> 0, ok |-> FALSE, called |-> FALSE,
               preYielded |-> FALSE, preCached |-> FALSE, reach |-> FALSE, got |-> {},
               walked |-> FALSE]

\* dat of the goroutine of the gossip client's Watch for the beacon of a round
GossipData(round) ==
    MkRes("RandomData", round, Sig(round), EmptySig, RandomnessFromSignature(Sig(round)))

AggIdle ==
    /\ aauto = FALSE
    /\ awc = FALSE
    /\ asub = "none"
    /\ awatchers = 0
    /\ areach = TRUE
    /\ ayield = {}
    /\ aclosed = {}
    /\ aout = AggIdleOut
    /\ averified = {}

\* the goroutines that verify in strict mode at the same time
Walkers == {"g1", "g2"}

\* a call of getTrustedPreviousSignature: where it is, the round asked for, its
\* locals trustRound, initialTrustRound, trustPrevSig and next, how it ended,
\* and, as history, the round verified last, the previous signature used for
\* it, and whether the walk started without a usable point of trust
NoWalk == [pc |-> "idle", round |-> 0, trustRound |-> 0, initial |-> 0,
           ps |-> EmptySig, next |-> NilRes, err |-> "", checked |-> 0, with |-> EmptySig,
           fresh |-> FALSE]

\* a walk that keeps v.potLk after it has read the point of trust
KeepsLock(g) == g

\* v.potLk.Unlock() after the point of trust was read
Unlock(g) == ""

\* the round of the point of trust (0: nil)
PotRound(p) == IF p = NilRes THEN 0 ELSE p.round

WalkIdle ==
    /\ kchained = FALSE
    /\ kcached = FALSE
    /\ kpot = NilRes
    /\ klock = ""
    /\ kw = [g \in Walkers |-> NoWalk]

(***************************************************************************)
(* HTTP heartbeat (http/metric.go), gossip relay node                      *)
(* (internal/lp2p/relaynode.go) and the channels of the polling Watch      *)
(***************************************************************************)
\* the kinds of client MeasureHeartbeats may be given: an *httpClient or not
ClientKinds == {"http", "other"}

\* the sets of clients MeasureHeartbeats is called with
ClientLists == UNION {[1..n -> ClientKinds] : n \in 0..MaxHClients}

\* no turn of the loop yet
NoTurn == [any |-> FALSE, n |-> 0, probed |-> FALSE, failed |-> FALSE]

\* c.next after a probe that failed: the continue leaves it as it is
AfterFailure(next, len) == next

\* c.next++, the only use of c.next being c.next % len(c.clients)
Incremented(next, len) == (next + 1) % len

\* MeasureHeartbeats not called
HeartIdle ==
    /\ mclients = <<>>
    /\ mnext = 0
    /\ mctx = "live"
    /\ mpc = "none"
    /\ mlast = NoTurn

\* a channel of results: what it holds, whether it is closed and, as history,
\* which call of Watch returned it (0: none, then 1 and 2 in turn)
NoChan == [items |-> <<>>, closed |-> FALSE, gen |-> 0]

\* the results the client behind the relay node has: rounds 1, 2, ..., each a
\* *client.RandomData or a result of another type
RelayKinds == {"RandomData", "Result"}
RelaySources ==
    UNION {{[i \in 1..n |-> [round |-> i, typ |-> t[i], ch |-> 0]] : t \in [1..n -> RelayKinds]} :
              n \in 0..MaxResults}

\* rd, ok := res.(*client2.RandomData)
IsRandomData(res) == res.typ = "RandomData"

\* a relay node that gives up when the watch channel is closed
AfterCloseReturns == "returned"

\* the watch channel is closed: break LOOP, on to time.Sleep and Watch again
AfterClose == "sleep"

\* the relay node not started
RelayIdle ==
    /\ npc = "watch"
    /\ nch = NoChan
    /\ nsrc = <<>>
    /\ ndone = FALSE
    /\ ncons = <<>>
    /\ npub = <<>>

\* the capacity of the channel PollingWatcher makes
PollBuffer == 1

\* no Watch called
PipeIdle ==
    /\ pctx = "live"
    /\ ppoll = "none"
    /\ pch = NoChan
    /\ phttp = "none"
    /\ pout = FALSE
    /\ pcache = "none"
    /\ pout2 = FALSE
    /\ pgot = FALSE

\* the verifier before it is constructed
VerifyIdle ==
    /\ venv = [strict |-> FALSE, chained |-> FALSE, stack |-> "direct"]
    /\ pot = NilRes
    /\ vcache = [k \in VKeys |-> NilRes]
    /\ wstate = "none"
    /\ vphase = "idle"
    /\ vout = VerifyIdleOut

\* the builder before New is called
NoOpt == [name |-> "none", hash |-> NilHash, info |-> NilInfo]
NoRes == [status |-> "pending", err |-> "", verifiers |-> 0, infoGiven |-> FALSE]

BuilderIdle ==
    /\ cfg = InitCfg
    /\ bphase = "options"
    /\ bres = NoRes
    /\ lastOpt = NoOpt
    /\ nopts = 0

NotWatched == [got |-> FALSE, live |-> FALSE]
CacheIdleOut == [op |-> "none", round |-> 0, called |-> 0, err |-> FALSE, res |-> NilRes,
                 pre |-> NilRes, preFetched |-> NilRes, preReplaced |-> FALSE,
                 preWatched |-> NotWatched]

CacheIdle ==
    /\ ccache = EmptyCache
    /\ csize = 0
    /\ cphase = "idle"
    /\ cout = CacheIdleOut
    /\ track = 0
    /\ fetched = [res |-> NilRes, replaced |-> FALSE]
    /\ watched = NotWatched

\* makeCache(size), NewCachingClient(l, c, cache)
CacheInit ==
    /\ ccache = EmptyCache
    /\ csize \in 0..CacheCap
    /\ cphase = "idle"
    /\ cout = CacheIdleOut
    /\ track \in 1..MaxCRound
    /\ fetched = [res |-> NilRes, replaced |-> FALSE]
    /\ watched = NotWatched
    /\ BuilderIdle
    /\ VerifyIdle
    /\ ValidatorIdle
    /\ GossipIdle
    /\ HttpIdle
    /\ OptIdle
    /\ MergeIdle
    /\ AggIdle
    /\ WalkIdle
    /\ HeartIdle
    /\ RelayIdle
    /\ PipeIdle

\* the history after the cache went from ccache to cache2 in an operation that
\* was not a successful Get(track): the observation ends when the entry of
\* track is evicted, and notes when another result is stored for track
HistoryAfter(cache2) ==
    IF fetched.res = NilRes THEN fetched
    ELSE IF ccache[track] # NilRes /\ cache2[track] = NilRes
    THEN [res |-> NilRes, replaced |-> FALSE]
    ELSE IF cache2[track] # ccache[track] THEN [fetched EXCEPT !.replaced = TRUE]
    ELSE fetched

\* the history of Watch after the cache went from ccache to cache2: the entry
\* that Watch stored for track is gone once it is evicted
WatchedAfter(cache2) ==
    IF ccache[track] # NilRes /\ cache2[track] = NilRes
    THEN [watched EXCEPT !.live = FALSE]
    ELSE watched

\* cachingClient.Get(ctx, round), the wrapped client answering a when asked
CGet(round, a) ==
    /\ cphase = "idle"
    /\ LET val == TryGet(ccache, csize, round)
           base == [CacheIdleOut EXCEPT !.op = "Get", !.round = round, !.pre = val,
                                        !.preFetched = fetched.res,
                                        !.preReplaced = fetched.replaced,
                                        !.preWatched = watched]
       IN IF val # NilRes
          THEN /\ cout' = [base EXCEPT !.res = val]
               /\ ccache' = ccache
               /\ fetched' = fetched
          ELSE /\ cout' = [base EXCEPT !.called = 1, !.err = a.err, !.res = a.res]
               /\ IF InsertsOnGet(a)
                  THEN ccache' \in Add(ccache, csize, GetKey(round, a.res), a.res)
                  ELSE ccache' = ccache
               /\ fetched' = IF round = track /\ ~a.err /\ a.res # NilRes /\ csize > 0
                             THEN [res |-> a.res, replaced |-> FALSE]
                             ELSE HistoryAfter(ccache')
    /\ watched' = WatchedAfter(ccache')
    /\ cphase' = "returned"
    /\ UNCHANGED <<csize, track>>
    /\ UNCHANGED <<bvars, vvars, rvars, gvars, hvars, ovars, wvars, avars, kvars, mvars, nvars, pvars>>

\* one turn of the loop of cachingClient.Watch: result arrives from the wrapped
\* client's channel, is added to the cache and then sent to the consumer
CWatch(result) ==
    /\ cphase = "idle"
    /\ ccache' \in WatchAdd(ccache, csize, result)
    /\ cout' = [CacheIdleOut EXCEPT !.op = "Watch", !.round = result.round, !.res = result]
    /\ fetched' = HistoryAfter(ccache')
    /\ watched' = IF result.round = track
                  THEN [got |-> TRUE, live |-> csize > 0]
                  ELSE WatchedAfter(ccache')
    /\ cphase' = "returned"
    /\ UNCHANGED <<csize, track>>
    /\ UNCHANGED <<bvars, vvars, rvars, gvars, hvars, ovars, wvars, avars, kvars, mvars, nvars, pvars>>

\* the Watch goroutine of the gossip client stores a beacon it was dispatched:
\* c.cache.Add(resp.GetRound(), dat), on the cache shared with the caching client
CGossipAdd(round) ==
    /\ cphase = "idle"
    /\ ccache' \in Add(ccache, csize, round,
                       MkRes("RandomData", round, Sig(round), EmptySig,
                             RandomnessFromSignature(Sig(round))))
    /\ fetched' = HistoryAfter(ccache')
    /\ watched' = WatchedAfter(ccache')
    /\ UNCHANGED <<csize, track, cphase, cout>>
    /\ UNCHANGED <<bvars, vvars, rvars, gvars, hvars, ovars, wvars, avars, kvars, mvars, nvars, pvars>>

\* the caller takes what Get returned, the consumer what Watch sent
CReturn ==
    /\ cphase = "returned"
    /\ cphase' = "idle"
    /\ cout' = CacheIdleOut
    /\ UNCHANGED <<ccache, csize, track, fetched, watched>>
    /\ UNCHANGED <<bvars, vvars, rvars, gvars, hvars, ovars, wvars, avars, kvars, mvars, nvars, pvars>>

CacheNext ==
    \/ \E round \in CRounds, a \in CAnswers : CGet(round, a)
    \/ \E result \in CResults : CWatch(result)
    \/ \E round \in 1..MaxCRound : CGossipAdd(round)
    \/ CReturn

CacheSpec == CacheInit /\ [][CacheNext]_vars

C9_Hit ==
    (cphase = "returned" /\ cout.op = "Get" /\ cout.round = track
        /\ csize > 0 /\ cout.preFetched # NilRes /\ cout.preFetched.round = track)
    => /\ cout.called = 0
       /\ ~cout.err
       /\ cout.res = cout.pre
       /\ cout.res.round = track
       /\ ~cout.preReplaced => cout.res = cout.preFetched

C9_Miss ==
    (cphase = "returned" /\ cout.op = "Get" /\ cout.pre = NilRes)
    => /\ cout.called = 1
       /\ (~cout.err /\ cout.res # NilRes /\ csize > 0) => ccache[cout.res.round] = cout.res

C9_StoresOnSuccessOnly ==
    (cphase = "idle" /\ cphase' = "returned" /\ cout'.op = "Get"
        /\ (cout'.called = 0 \/ cout'.err \/ cout'.res = NilRes))
    => ccache' = ccache

C10_GetLatestBypassesCache ==
    (cphase = "returned" /\ cout.op = "Get" /\ cout.round = 0)
    => (cout.called = 1 /\ cout.pre = NilRes)

\* C11: after any sequence of Add operations (Get misses, Watch pass-through,
\* the gossip subscriber) the cache holds at most cache_size entries.
C11_CacheWithinSize == Cardinality(CacheKeys(ccache)) <= csize

\* a full cache took one more round: the entry Watch had stored for round track
\* was evicted by a later Add, and the cache is full
C11_Witness ==
    /\ csize > 0
    /\ watched.got /\ ~watched.live
    /\ ccache[track] = NilRes
    /\ Cardinality(CacheKeys(ccache)) = csize

\* C12 as stated: once the consumer has received round track from Watch, a
\* Get(track) is answered from the cache without calling the wrapped client.
C12_GetAfterWatchFromCache ==
    (cout.op = "Get" /\ cout.round = track /\ cout.preWatched.got) => cout.called = 0

\* Watch stores the result under its round before it hands it over
C12_WatchInserts ==
    (cphase = "idle" /\ cout'.op = "Watch" /\ csize > 0)
        => ccache'[cout'.round] = cout'.res

\* a Get of the round the consumer received finds it while the entry is there
C12_HitWhileCached ==
    (cout.op = "Get" /\ cout.round = track /\ cout.preWatched.got /\ cout.preWatched.live)
        => (cout.called = 0 /\ cout.res # NilRes /\ cout.res = cout.pre)

\* C12: Watch inserts each result into the cache before handing it over; once
\* the consumer has received round track from Watch, a Get(track) is answered
\* from the cache without calling the wrapped client, as long as the cache has
\* a positive size and has not evicted the entry since.
C12_GetAfterWatchWhileCached == [][C12_WatchInserts]_vars /\ []C12_HitWhileCached

\* the consumer received round track from Watch, other rounds were stored
\* afterwards without evicting it, and Get(track) was answered from the cache
C12_Witness ==
    /\ cout.op = "Get" /\ cout.round = track /\ cout.called = 0
    /\ cout.preWatched.got /\ cout.preWatched.live
    /\ Cardinality(CacheKeys(ccache)) = csize /\ csize > 1

\* C38: every cache entry is stored under its own round: after any sequence
\* of insertions by the caching client's Get, by its Watch and by the gossip
\* client's Watch, TryGet(k) returns either nothing or a result of round k.
C38_EntryUnderOwnRound ==
    \A k \in CRounds :
        TryGet(ccache, csize, k) = NilRes \/ TryGet(ccache, csize, k).round = k

\* a Get missed, the wrapped client answered with a result of another round
\* than the one asked for, and the result is in the cache, next to an entry
\* stored before
C38_Witness ==
    /\ cphase = "returned"
    /\ cout.op = "Get" /\ cout.called = 1
    /\ cout.res # NilRes /\ cout.res.round # cout.round /\ cout.round > 0
    /\ TryGet(ccache, csize, cout.res.round) = cout.res
    /\ Cardinality(CacheKeys(ccache)) > 1

(***************************************************************************)
(* Verifying client (client/verify.go)                                     *)
(*                                                                         *)
(* The operators thread st = [cache, pot] through the calls of one         *)
(* operation. e is the stack (venv) and the network mode of the operation. *)
(* In the "direct" stack the verifier is used as newVerifyingClient builds *)
(* it, its indirect client being the backend itself. In the "cached"       *)
(* stack the caching client wraps the verifier and is its indirect client, *)
(* as makeOptimizingClient arranges it, so that the rounds fetched for the *)
(* walk come back through verifyingClient.Get.                             *)
(***************************************************************************)
VOk(st, res) == [st |-> st, ok |-> TRUE, err |-> "", res |-> res]
VFail(st, err) == [st |-> st, ok |-> FALSE, err |-> err, res |-> NilRes]
TOk(st, ps) == [st |-> st, ok |-> TRUE, err |-> "", ps |-> ps]
TFail(st, err) == [st |-> st, ok |-> FALSE, err |-> err, ps |-> EmptySig]

\* uint64 arithmetic, on UintWidth bits
UintWidth == 30
UintSub(a, b) == (a - b) % (2 ^ UintWidth)

\* asRandomData(r): a *RandomData is updated in place, any other result is
\* copied into a new one; either way Random is the hash of the signature
asRandomData(r) ==
    MkRes("RandomData", r.round, r.sig, r.prev, RandomnessFromSignature(r.sig))

\* verifyingClient.Get without the check of the round
RoundMismatchIgnored(round, rd) == FALSE

\* verifyingClient.Get: round != 0 && rd.GetRound() != round
RoundMismatch(round, rd) == round # 0 /\ rd.round # round

RECURSIVE cachingClientGet(_, _, _, _, _)
RECURSIVE verifyingClientGet(_, _, _, _, _)
RECURSIVE verify(_, _, _, _)
RECURSIVE getTrustedPreviousSignature(_, _, _, _)
RECURSIVE WalkLoop(_, _, _, _, _, _, _)
RECURSIVE indirectClientGet(_, _, _, _)

\* the one element of a set of one element; binds the result of a call, which
\* is then computed once
The(S) == CHOOSE x \in S : TRUE

\* cachingClient.Get(ctx, round) above the verifier, the backend answering a
cachingClientGet(e, st, round, a, fuel) ==
    IF TryGet(st.cache, VCacheSize, round) # NilRes
    THEN VOk(st, TryGet(st.cache, VCacheSize, round))
    ELSE The({ IF InsertsOnGet([err |-> ~g.ok, res |-> g.res])
               THEN VOk([g.st EXCEPT !.cache =
                            The(Add(g.st.cache, VCacheSize, GetKey(round, g.res), g.res))],
                        g.res)
               ELSE g :
               g \in {verifyingClientGet(e, st, round, a, fuel)} })

\* verifyingClient.Get(ctx, round), the backend answering a
verifyingClientGet(e, st, round, a, fuel) ==
    IF fuel = 0 THEN VFail(st, "walk does not end")
    ELSE IF e.net = "noInfo" THEN VFail(st, "info")
    ELSE IF a.err THEN VFail(st, "get")
    ELSE The({ IF ~v.ok THEN VFail(v.st, v.err)
               ELSE IF RoundMismatch(round, asRandomData(a.res))
               THEN VFail(v.st, "round mismatch")
               ELSE VOk(v.st, v.res) :
               v \in {verify(e, st, asRandomData(a.res), fuel)} })

\* verifyingClient.verify(ctx, info, r)
verify(e, st, r, fuel) ==
    The({ IF ~t.ok THEN VFail(t.st, t.err)
          ELSE IF ~VerifyBeacon(e.chained, t.ps, r.round, r.sig)
          THEN VFail(t.st, "verification failed")
          ELSE VOk(t.st, [r EXCEPT !.rand = RandomnessFromSignature(r.sig)]) :
          t \in {IF e.strict THEN getTrustedPreviousSignature(e, st, r.round, fuel)
                 ELSE TOk(st, r.prev)} })

\* verifyingClient.getTrustedPreviousSignature(ctx, round)
getTrustedPreviousSignature(e, st, round, fuel) ==
    IF e.net = "noInfo" THEN TFail(st, "could not get info")
    ELSE IF round = 1 THEN TOk(st, GenesisSeed)
    ELSE LET slow == st.pot = NilRes \/ st.pot.round > round
             initialTrustRound == IF slow THEN 1 ELSE st.pot.round
             trustPrevSig == IF slow THEN GenesisSeed ELSE st.pot.sig
         IN The({ IF ~w.ok THEN TFail(w.st, w.err)
                  ELSE IF w.trustRound # UintSub(round, 1)
                  THEN TFail(w.st, "unexpected trust round")
                  ELSE IF w.trustRound > initialTrustRound
                  THEN TOk([w.st EXCEPT !.pot = w.next], w.ps)
                  ELSE TOk(w.st, w.ps) :
                  w \in {WalkLoop(e, st, initialTrustRound, trustPrevSig, UintSub(round, 1),
                                  NilRes, fuel)} })

\* the loop of getTrustedPreviousSignature: for trustRound < round-1
WalkLoop(e, st, trustRound, trustPrevSig, last, next, fuel) ==
    IF trustRound < last
    THEN The({ IF ~g.ok
               THEN [st |-> g.st, ok |-> FALSE,
                     err |-> IF g.err = "walk does not end" THEN g.err ELSE "could not get round",
                     trustRound |-> trustRound + 1, ps |-> EmptySig, next |-> NilRes]
               ELSE IF ~VerifyBeacon(e.chained, trustPrevSig, trustRound + 1, g.res.sig)
               THEN [st |-> g.st, ok |-> FALSE, err |-> "verifying beacon",
                     trustRound |-> trustRound + 1, ps |-> EmptySig, next |-> NilRes]
               ELSE WalkLoop(e, g.st, trustRound + 1, g.res.sig, last, g.res, fuel) :
               g \in {indirectClientGet(e, st, trustRound + 1, fuel)} })
    ELSE [st |-> st, ok |-> TRUE, err |-> "", trustRound |-> trustRound,
          ps |-> trustPrevSig, next |-> next]

\* v.indirectClient.Get(ctx, round)
indirectClientGet(e, st, round, fuel) ==
    IF e.stack = "cached"
    THEN cachingClientGet(e, st, round, WalkAnswer(e.chained, e.net, round), fuel - 1)
    ELSE LET a == WalkAnswer(e.chained, e.net, round)
         IN IF a.err THEN VFail(st, "get") ELSE VOk(st, a.res)

\* verifyingClient.Watch: outCh <- r. The verified rd is r itself when r is a
\* *RandomData, and a copy of it otherwise
WatchForwards(r, rd) == IF r.typ = "RandomData" THEN rd ELSE r

\* newVerifyingClient / makeClient: strict from WithFullChainVerification, the
\* point of trust from WithTrustedResult
VerifyInit ==
    /\ venv \in VEnvs
    /\ pot \in {NilRes} \cup {Beacon(venv.chained, "RandomData", j) : j \in 1..MaxRound}
    /\ vcache = [k \in VKeys |-> NilRes]
    /\ wstate = "none"
    /\ vphase = "idle"
    /\ vout = VerifyIdleOut
    /\ BuilderIdle
    /\ CacheIdle
    /\ ValidatorIdle
    /\ GossipIdle
    /\ HttpIdle
    /\ OptIdle
    /\ MergeIdle
    /\ AggIdle
    /\ WalkIdle
    /\ HeartIdle
    /\ RelayIdle
    /\ PipeIdle

Env(net) == [strict |-> venv.strict, chained |-> venv.chained, stack |-> venv.stack, net |-> net]
\* history: r is a beacon of the chain, by its signature and, in a chained
\* scheme, its previous signature
Valid(r) ==
    /\ r.round \in 1..MaxRound
    /\ r.sig = Sig(r.round)
    /\ venv.chained => r.prev = PrevOf(r.round)

\* an operation whose walk does not end does not return
Returned(r) == IF r.err = "walk does not end" THEN "stuck" ELSE "returned"

\* history: the backend was asked by Get(round) and what it answered, a, passes
\* verifyingClient.verify
Asked(round, a, net) ==
    ~a.err /\ net # "noInfo" /\ ~(venv.stack = "cached" /\ vcache[round] # NilRes)
Verified(r, net) ==
    verify(Env(net), [cache |-> vcache, pot |-> pot], asRandomData(r), MaxDepth).ok

\* Get(ctx, round) on the stack, the backend answering a
VGet(round, a, net) ==
    /\ vphase = "idle"
    /\ \E r \in {IF venv.stack = "cached"
                THEN cachingClientGet(Env(net), [cache |-> vcache, pot |-> pot], round, a, MaxDepth)
                ELSE verifyingClientGet(Env(net), [cache |-> vcache, pot |-> pot], round, a, MaxDepth)} :
          /\ vout' = [VerifyIdleOut EXCEPT !.op = "Get", !.round = round, !.ok = r.ok,
                                           !.err = r.err, !.res = r.res,
                                           !.hit = (venv.stack = "cached" /\ vcache[round] # NilRes),
                                           !.sent = IF Asked(round, a, net) THEN a.res.round ELSE -1,
                                           !.verified = Asked(round, a, net) /\ Verified(a.res, net)]
          /\ pot' = r.st.pot
          /\ vcache' = r.st.cache
          /\ vphase' = Returned(r)
    /\ UNCHANGED <<venv, wstate>>
    /\ UNCHANGED <<bvars, cvars, rvars, gvars, hvars, ovars, wvars, avars, kvars, mvars, nvars, pvars>>

\* Watch(ctx): the channel is closed at once when Info fails
VWatchStart(net) ==
    /\ vphase = "idle"
    /\ wstate \in {"none", "closed"}
    /\ wstate' = IF net = "noInfo" THEN "closed" ELSE "open"
    /\ UNCHANGED <<venv, pot, vcache, vphase, vout>>
    /\ UNCHANGED <<bvars, cvars, rvars, gvars, hvars, ovars, wvars, avars, kvars, mvars, nvars, pvars>>

\* one turn of the loop of verifyingClient.Watch: r arrives from the backend;
\* in the cached stack what the verifier forwards passes cachingClient.Watch
VWatchItem(r, net) ==
    /\ vphase = "idle"
    /\ wstate \in {"open", "dropped"}
    /\ \E v \in {verify(Env(net), [cache |-> vcache, pot |-> pot], asRandomData(r), MaxDepth)} :
       \E out \in {WatchForwards(r, v.res)} :
          /\ vout' = [VerifyIdleOut EXCEPT !.op = "Watch", !.round = r.round, !.ok = v.ok,
                                           !.err = v.err,
                                           !.res = IF v.ok THEN out ELSE NilRes,
                                           !.sent = r.round, !.valid = Valid(r),
                                           !.verified = v.ok]
          /\ pot' = v.st.pot
          /\ vcache' = IF v.ok /\ venv.stack = "cached"
                       THEN The(Add(v.st.cache, VCacheSize, out.round, out))
                       ELSE v.st.cache
          /\ wstate' = IF v.ok THEN wstate ELSE "dropped"
          /\ vphase' = Returned(v)
    /\ UNCHANGED venv
    /\ UNCHANGED <<bvars, cvars, rvars, gvars, hvars, ovars, wvars, avars, kvars, mvars, nvars, pvars>>

\* the backend's channel is closed: the loop ends, outCh is closed
VWatchClose ==
    /\ vphase = "idle"
    /\ wstate \in {"open", "dropped"}
    /\ wstate' = "closed"
    /\ UNCHANGED <<venv, pot, vcache, vphase, vout>>
    /\ UNCHANGED <<bvars, cvars, rvars, gvars, hvars, ovars, wvars, avars, kvars, mvars, nvars, pvars>>

\* the caller takes what Get returned, the consumer receives from the channel
VReturn ==
    /\ vphase = "returned"
    /\ vphase' = "idle"
    /\ vout' = VerifyIdleOut
    /\ UNCHANGED <<venv, pot, vcache, wstate>>
    /\ UNCHANGED <<bvars, cvars, rvars, gvars, hvars, ovars, wvars, avars, kvars, mvars, nvars, pvars>>

VerifyNext ==
    \/ \E round \in 0..MaxRound, a \in BAnswers(venv.chained), net \in NetModesOf(venv.strict) :
            VGet(round, a, net)
    \/ \E net \in {"noInfo", "honest"} : VWatchStart(net)
    \/ \E r \in BResults(venv.chained), net \in NetModesOf(venv.strict) : VWatchItem(r, net)
    \/ VWatchClose
    \/ VReturn

VerifySpec == VerifyInit /\ [][VerifyNext]_vars

(***************************************************************************)
(* Claims about the verifying client                                       *)
(***************************************************************************)
GetReturned == vphase = "returned" /\ vout.op = "Get"
WatchReturned == vphase = "returned" /\ vout.op = "Watch"
\* r carries the signature of the chain for its round
Genuine(r) == r.round \in 1..MaxRound /\ r.sig = Sig(r.round)

\* C1 (as claimed): a Get(q), q > 0, that succeeds returns a result of round
\* q; when the backend answers with another round Get fails with the round
\* mismatch error and returns no result.
C1_RoundMismatchAlwaysReported ==
    (GetReturned /\ vout.round > 0)
    => /\ vout.ok => vout.res.round = vout.round
       /\ (vout.sent # -1 /\ vout.sent # vout.round)
          => (~vout.ok /\ vout.res = NilRes /\ vout.err = "round mismatch")

\* C1 (amended): a Get(q), q > 0, that succeeds returns a result of round q,
\* directly or behind the caching client; when the backend answers with
\* another round Get fails and returns no result, with the round mismatch
\* error if the answer passes verification and with the error of the
\* verification if it does not.
C1_GetReturnsRequestedRound ==
    (GetReturned /\ vout.round > 0)
    => /\ vout.ok => vout.res.round = vout.round
       /\ (vout.sent # -1 /\ vout.sent # vout.round)
          => /\ ~vout.ok
             /\ vout.res = NilRes
             /\ vout.verified <=> vout.err = "round mismatch"

\* a verified answer of another round is refused behind the caching client
C1_Witness ==
    /\ GetReturned
    /\ venv.stack = "cached"
    /\ vout.round > 0
    /\ vout.sent \notin {-1, vout.round}
    /\ vout.verified
    /\ vout.err = "round mismatch"

\* C2: what Get returns and what Watch forwards carries the signature of the
\* chain for its round, and Get returns nothing that did not pass verify; a
\* Get that fails returns no result; Watch forwards nothing for an item that
\* fails verification and leaves the stream open, and it forwards a beacon of
\* the chain whether or not it skipped items before (with full chain
\* verification: when the walk to the beacon succeeds).
C2_Delivered ==
    (vphase = "returned" /\ vout.ok) => Genuine(vout.res)
C2_NothingOnFailure ==
    (vphase = "returned" /\ ~vout.ok) => vout.res = NilRes
C2_GetNeedsVerification ==
    (GetReturned /\ vout.sent # -1 /\ ~vout.verified) => ~vout.ok
C2_WatchSkips ==
    WatchReturned => /\ wstate \in {"open", "dropped"}
                     /\ ~vout.ok => wstate = "dropped"
                     /\ vout.ok => (vout.valid \/ venv.strict)
                     /\ (vout.valid /\ ~venv.strict) => vout.ok
\* C2, in full: only verified results are handed out, by Get and by Watch
C2_OnlyVerifiedHandedOut ==
    C2_Delivered /\ C2_NothingOnFailure /\ C2_GetNeedsVerification /\ C2_WatchSkips

\* Watch forwards an item after it skipped one
C2_Witness ==
    /\ WatchReturned
    /\ wstate = "dropped"
    /\ vout.ok
    /\ Genuine(vout.res)

\* C3: the randomness of every result that Get returns or Watch forwards is
\* the hash of the result's signature.
C3_RandomnessRecomputed ==
    (vphase = "returned" /\ vout.ok) => vout.res.rand = RandomnessFromSignature(vout.res.sig)

(***************************************************************************)
(* New(options...): the options are applied in order, the first error      *)
(* ends New; then makeClient runs                                          *)
(***************************************************************************)
BuilderInit ==
    /\ BuilderIdle
    /\ CacheIdle
    /\ VerifyIdle
    /\ ValidatorIdle
    /\ GossipIdle
    /\ HttpIdle
    /\ OptIdle
    /\ MergeIdle
    /\ AggIdle
    /\ WalkIdle
    /\ HeartIdle
    /\ RelayIdle
    /\ PipeIdle

Apply(r, o) ==
    /\ bphase = "options"
    /\ nopts < MaxOpts
    /\ nopts' = nopts + 1
    /\ lastOpt' = o
    /\ UNCHANGED <<cvars, vvars, rvars, gvars, hvars, ovars, wvars, avars, kvars, mvars, nvars, pvars>>
    /\ cfg' = r.cfg
    /\ IF r.err = ""
       THEN /\ bphase' = "options"
            /\ bres' = bres
       ELSE /\ bphase' = "failed"
            /\ bres' = [NoRes EXCEPT !.status = "err", !.err = r.err]

OptFrom == \E cl \in SeqsUpTo(InfoAnswers, MaxClients) :
               Apply(From(cfg, cl), [NoOpt EXCEPT !.name = "From"])

OptInsecurely == Apply(Insecurely(cfg), [NoOpt EXCEPT !.name = "Insecurely"])

OptWithCacheSize == \E size \in {-1, 0, 32} :
               Apply(WithCacheSize(cfg, size), [NoOpt EXCEPT !.name = "WithCacheSize"])

OptWithChainHash == \E h \in Hashes \cup {NilHash} :
               Apply(WithChainHash(cfg, h), [NoOpt EXCEPT !.name = "WithChainHash", !.hash = h])

OptWithChainInfo == \E i \in Infos :
               Apply(WithChainInfo(cfg, i), [NoOpt EXCEPT !.name = "WithChainInfo", !.info = i])

OptWithWatcher == \E w \in {"ok", "ctorErr"} :
               Apply(WithWatcher(cfg, w), [NoOpt EXCEPT !.name = "WithWatcher"])

MakeClient ==
    /\ bphase = "options"
    /\ LET m == makeClient(cfg)
       IN /\ cfg' = m.cfg
          \* infoGiven: a chain info had been supplied when makeClient was entered
          /\ bres' = [status |-> m.status, err |-> m.err, verifiers |-> m.verifiers,
                      infoGiven |-> cfg.chainInfo # NilInfo]
    /\ bphase' = "made"
    /\ UNCHANGED <<lastOpt, nopts>>
    /\ UNCHANGED <<cvars, vvars, rvars, gvars, hvars, ovars, wvars, avars, kvars, mvars, nvars, pvars>>

BuilderNext ==
    \/ OptFrom
    \/ OptInsecurely
    \/ OptWithCacheSize
    \/ OptWithChainHash
    \/ OptWithChainInfo
    \/ OptWithWatcher
    \/ MakeClient

BuilderSpec == BuilderInit /\ [][BuilderNext]_vars

(***************************************************************************)
(* Claims about the builder                                                *)
(***************************************************************************)
NewReturned == bphase \in {"made", "failed"}
RootSupplied == cfg.insecure \/ cfg.chainHash # NilHash \/ cfg.chainInfo # NilInfo

\* C4: New fails with "no root of trust specified" exactly when none of chain
\* hash, chain info and the insecure flag has been supplied; with one of them
\* the root-of-trust check passes, whatever New returns afterwards.
C4_NoRootOfTrustExactly ==
    NewReturned => ((bres.err = "no root of trust specified") <=> ~RootSupplied)

\* New was given a client but no root of trust, and refused
C4_Witness ==
    /\ bphase = "made"
    /\ Len(cfg.clients) > 0
    /\ ~RootSupplied
    /\ bres.err = "no root of trust specified"

\* C5: with neither a client nor a watcher constructor New fails, also when a
\* root of trust is given (then with "no points of contact specified"); with a
\* watcher only and no chain info (chain hash or insecure flag only) New fails
\* as well, no backend being there to provide the chain info.
C5_PointOfContactNeeded ==
    bphase = "made" =>
        /\ (Len(cfg.clients) = 0 /\ cfg.watcher = "none") =>
               /\ bres.status = "err"
               /\ RootSupplied => bres.err = "no points of contact specified"
        /\ (Len(cfg.clients) = 0 /\ cfg.watcher # "none" /\ cfg.chainInfo = NilInfo) =>
               /\ bres.status = "err"
               /\ (RootSupplied /\ cfg.cacheSize >= 0) => bres.err = "chain info cannot be nil"

\* a watcher and a chain hash, no client and no chain info: refused
C5_Witness ==
    /\ bphase = "made"
    /\ Len(cfg.clients) = 0
    /\ cfg.watcher = "ok"
    /\ cfg.chainHash # NilHash
    /\ cfg.chainInfo = NilInfo
    /\ bres.err = "chain info cannot be nil"

\* C6: no client is constructed whose chain info hashes to something else
\* than the supplied chain hash.
C6_ConstructedInfoMatchesHash ==
    (bphase = "made" /\ bres.status = "ok" /\ cfg.chainHash # NilHash)
        => Hash(cfg.chainInfo) = cfg.chainHash

\* C7: without a supplied chain info, the bootstrap step fails only if the
\* Info call of every backend fails, and the chain info kept is the one of the
\* first backend whose Info call succeeds.
C7_BootstrapFailsOnlyIfAllFail ==
    bphase = "made" =>
        /\ bres.err = "could not populate chain info"
               => \A i \in 1..Len(cfg.clients) : ~cfg.clients[i].ok
        /\ \A i \in 1..Len(cfg.clients) :
               (/\ cfg.clients[i].ok
                /\ \A j \in 1..(i - 1) : ~cfg.clients[j].ok
                /\ ~bres.infoGiven
                /\ bres.status = "ok")
               => cfg.chainInfo = cfg.clients[i].info

\* C8: a chain hash and a chain info that hashes to something else never sit
\* together in the configuration while New goes on: the option applied second
\* fails, whichever it is, New returns its error, and the configuration keeps
\* the first value and does not take the second.
C8_ConflictingHashAndInfoRefused ==
    /\ bphase = "options" =>
          /\ (cfg.chainHash # NilHash /\ cfg.chainInfo # NilInfo)
                 => Hash(cfg.chainInfo) = cfg.chainHash
          /\ lastOpt.name = "WithChainInfo" => cfg.chainInfo = lastOpt.info
          /\ lastOpt.name = "WithChainHash" => cfg.chainHash = lastOpt.hash
    /\ (bphase = "failed" /\ lastOpt.name = "WithChainInfo") =>
          /\ bres.status = "err"
          /\ bres.err = "refusing to override hash with non-matching group"
          /\ cfg.chainHash # NilHash
          /\ cfg.chainHash # Hash(lastOpt.info)
          /\ cfg.chainInfo # lastOpt.info
    /\ (bphase = "failed" /\ lastOpt.name = "WithChainHash") =>
          /\ bres.status = "err"
          /\ bres.err = "refusing to override group with non-matching hash"
          /\ cfg.chainInfo # NilInfo
          /\ Hash(cfg.chainInfo) # lastOpt.hash
          /\ lastOpt.hash # NilHash => cfg.chainHash # lastOpt.hash

\* WithChainHash(h) was accepted, then WithChainInfo(i) with another hash failed
C8_Witness ==
    /\ bphase = "failed"
    /\ lastOpt.name = "WithChainInfo"
    /\ cfg.chainHash \in Hashes
    /\ cfg.chainHash # Hash(lastOpt.info)
    /\ cfg.chainInfo = NilInfo

(***************************************************************************)
(* Gossip validator: specification                                         *)
(***************************************************************************)
\* randomnessValidator(info, cache, c, clk); the cache holds one entry
ValidatorInit ==
    /\ rinfo \in RInfos
    /\ rnow = 0
    /\ rcache = [k \in GRounds |-> NilRes]
    /\ rsize \in {0, 1}
    /\ rphase = "idle"
    /\ rout = ValidatorIdleOut
    /\ BuilderIdle
    /\ CacheIdle
    /\ VerifyIdle
    /\ GossipIdle
    /\ HttpIdle
    /\ OptIdle
    /\ MergeIdle
    /\ AggIdle
    /\ WalkIdle
    /\ HeartIdle
    /\ RelayIdle
    /\ PipeIdle

\* pubsub calls the validator with message m
RValidate(m) ==
    /\ rphase = "idle"
    /\ rout' = [m |-> m, verdict |-> randomnessValidator(rinfo, rcache, rsize, rnow, m)]
    /\ rphase' = "returned"
    /\ UNCHANGED <<rinfo, rnow, rcache, rsize>>
    /\ UNCHANGED <<bvars, cvars, vvars, gvars, hvars, ovars, wvars, avars, kvars, mvars, nvars, pvars>>

\* pubsub takes the verdict
RReturn ==
    /\ rphase = "returned"
    /\ rphase' = "idle"
    /\ rout' = ValidatorIdleOut
    /\ UNCHANGED <<rinfo, rnow, rcache, rsize>>
    /\ UNCHANGED <<bvars, cvars, vvars, gvars, hvars, ovars, wvars, avars, kvars, mvars, nvars, pvars>>

\* a client sharing the cache stores a result under key k
RCacheAdd(k, entry) ==
    /\ rphase = "idle"
    /\ rcache' \in Add(rcache, rsize, k, entry)
    /\ UNCHANGED <<rinfo, rnow, rsize, rphase, rout>>
    /\ UNCHANGED <<bvars, cvars, vvars, gvars, hvars, ovars, wvars, avars, kvars, mvars, nvars, pvars>>

\* the clock advances
RTick ==
    /\ rphase = "idle"
    /\ rnow < MaxNow
    /\ rnow' = rnow + 1
    /\ UNCHANGED <<rinfo, rcache, rsize, rphase, rout>>
    /\ UNCHANGED <<bvars, cvars, vvars, gvars, hvars, ovars, wvars, avars, kvars, mvars, nvars, pvars>>

ValidatorNext ==
    \/ \E m \in Messages : RValidate(m)
    \/ RReturn
    \/ \E k \in GRounds : \E entry \in REntries(k) : RCacheAdd(k, entry)
    \/ RTick

ValidatorSpec == ValidatorInit /\ [][ValidatorNext]_vars

Validated == rphase = "returned"
RCached == TryGet(rcache, rsize, rout.m.round)

\* C13: with a root of trust, every decodable message whose round is scheduled
\* after the current time is rejected, whatever the cache holds for that round
\* and whether or not its signature is valid.
C13_FutureRejected ==
    (Validated /\ rinfo.present /\ rout.m.decodes
        /\ TimeOfRound(Period, GenesisTime, rout.m.round) > rnow)
    => rout.verdict = "reject"

\* a validly signed message of a future round, equal to the cached entry of
\* that round, was rejected
C13_Witness ==
    /\ Validated /\ rinfo.present /\ rout.m.decodes
    /\ TimeOfRound(Period, GenesisTime, rout.m.round) > rnow
    /\ rout.m.sig = Sig(rout.m.round)
    /\ RCached = MkRes("RandomData", rout.m.round, rout.m.sig, rout.m.prev,
                       RandomnessFromSignature(rout.m.sig))
    /\ rout.verdict = "reject"

\* the message equals the cached entry in round, signature, previous
\* signature and derived randomness
RAllEqual ==
    /\ RCached.round = rout.m.round
    /\ RCached.sig = rout.m.sig
    /\ RCached.prev = rout.m.prev
    /\ RCached.rand = RandomnessFromSignature(rout.m.sig)

\* a decodable message of a round that is not in the future and is cached was
\* validated with a root of trust
RCachedCase ==
    /\ Validated /\ rinfo.present /\ rout.m.decodes
    /\ TimeOfRound(Period, GenesisTime, rout.m.round) <= rnow
    /\ RCached # NilRes

\* C14 as stated: for a cached round that is not in the future the verdict is
\* IGNORE when round, signature, previous signature and derived randomness
\* equal the cached entry and REJECT when any differs.
C14_CachedIgnoreIffAllEqual ==
    RCachedCase => rout.verdict = (IF RAllEqual THEN "ignore" ELSE "reject")

\* C14: for a cached round that is not in the future the verdict is never
\* ACCEPT; when the cached entry is a *client.RandomData it is IGNORE if round,
\* signature, previous signature and derived randomness equal the entry and
\* REJECT otherwise; when the entry is of another type it is IGNORE if the
\* signatures are equal and REJECT otherwise.
C14_CachedNeverAccepted ==
    RCachedCase =>
        /\ rout.verdict # "accept"
        /\ RCached.typ = "RandomData" =>
               rout.verdict = (IF RAllEqual THEN "ignore" ELSE "reject")
        /\ RCached.typ # "RandomData" =>
               rout.verdict = (IF RCached.sig = rout.m.sig THEN "ignore" ELSE "reject")

\* a message whose previous signature differs from that of the cached entry,
\* which is not a *client.RandomData, was ignored
C14_Witness ==
    /\ RCachedCase
    /\ RCached.typ # "RandomData"
    /\ RCached.prev # rout.m.prev
    /\ rout.verdict = "ignore"

\* C15: without a root of trust every message that decodes is accepted,
\* whatever the clock, the cache and the signature.
C15_NoTrustRootAccepts ==
    (Validated /\ ~rinfo.present /\ rout.m.decodes) => rout.verdict = "accept"

\* without a root of trust a message with a bad signature, of a future round
\* for which the cache holds another entry, was accepted
C15_Witness ==
    /\ Validated /\ ~rinfo.present /\ rout.m.decodes
    /\ rout.m.sig = BadSig
    /\ TimeOfRound(Period, GenesisTime, rout.m.round) > rnow
    /\ RCached # NilRes /\ RCached.sig # rout.m.sig
    /\ rout.verdict = "accept"

RVerifies == VerifyBeacon(rinfo.chained, rout.m.prev, rout.m.round, rout.m.sig)

\* C16 as stated: with a root of trust, ACCEPT only for a message that
\* decodes, is not in the future, is not cached and verifies; a message that
\* does not decode or does not verify is always rejected.
C16_UnverifiedAlwaysRejected ==
    (Validated /\ rinfo.present) =>
        /\ rout.verdict = "accept" =>
               /\ rout.m.decodes
               /\ TimeOfRound(Period, GenesisTime, rout.m.round) <= rnow
               /\ RCached = NilRes
               /\ RVerifies
        /\ (~rout.m.decodes \/ ~RVerifies) => rout.verdict = "reject"

\* C16: with a root of trust, ACCEPT only for a message that decodes, is not in
\* the future, is not cached and verifies; a message that does not decode is
\* always rejected, one that does not verify is never accepted, and it is
\* rejected unless its round is cached and not in the future.
C16_AcceptOnlyVerified ==
    (Validated /\ rinfo.present) =>
        /\ rout.verdict = "accept" =>
               /\ rout.m.decodes
               /\ TimeOfRound(Period, GenesisTime, rout.m.round) <= rnow
               /\ RCached = NilRes
               /\ RVerifies
        /\ ~rout.m.decodes => rout.verdict = "reject"
        /\ (rout.m.decodes /\ ~RVerifies /\ ~RCachedCase) => rout.verdict = "reject"

\* a message that does not verify, equal to the cached entry, was ignored
C16_Witness ==
    /\ RCachedCase
    /\ ~RVerifies
    /\ RCached.typ = "RandomData"
    /\ rout.verdict = "ignore"

(***************************************************************************)
(* Gossip client: specification. The client is built without a cache       *)
(* (NewWithPubsub with cache nil); the insertion Watch makes into a cache   *)
(* is the action CGossipAdd of the caching specification.                  *)
(***************************************************************************)
GossipInit ==
    /\ gchained \in BOOLEAN
    /\ glatest = 0
    /\ gctx = "live"
    /\ gloop = "running"
    /\ gsubs = [w \in Watchers |-> NoWatch]
    /\ gcloses = 0
    /\ gpanic = ""
    /\ gseen = NothingSeen
    /\ BuilderIdle
    /\ CacheIdle
    /\ VerifyIdle
    /\ ValidatorIdle
    /\ HttpIdle
    /\ OptIdle
    /\ MergeIdle
    /\ AggIdle
    /\ WalkIdle
    /\ HeartIdle
    /\ RelayIdle
    /\ PipeIdle

\* history: m is a beacon of the chain that decodes
GenuineMessage(m) ==
    /\ m.decodes
    /\ m.round \in 1..MaxRound
    /\ m.sig = Sig(m.round)
    /\ gchained => m.prev = PrevOf(m.round)

GRunning == gpanic = ""

\* one turn of the dispatch goroutine with message m, the context being live
GDispatch(m) ==
    /\ GRunning
    /\ gloop = "running"
    /\ gctx = "live"
    /\ IF /\ m.decodes
          /\ VerifyBeacon(gchained, m.prev, m.round, m.sig)
          /\ ~StaleRound(glatest, m.round)
       THEN /\ glatest' = m.round
            /\ gsubs' = [w \in Watchers |->
                            IF gsubs[w].inMap
                            THEN [gsubs[w] EXCEPT !.inner = TrySend(@, m.round)]
                            ELSE gsubs[w]]
       ELSE UNCHANGED <<glatest, gsubs>>
    /\ gseen' = [dropped |-> IF /\ m.decodes
                                /\ ~VerifyBeacon(gchained, m.prev, m.round, m.sig)
                                /\ m.round > gseen.dropped
                             THEN m.round ELSE gseen.dropped,
                 genuine |-> gseen.genuine /\ (glatest' # glatest => GenuineMessage(m))]
    /\ UNCHANGED <<gchained, gctx, gloop, gcloses, gpanic>>
    /\ UNCHANGED <<bvars, cvars, vvars, rvars, hvars, ovars, wvars, avars, kvars, mvars, nvars, pvars>>

\* the dispatch goroutine finds its context cancelled: it closes the channel of
\* every subscriber, empties the map and returns
GShutdown ==
    /\ GRunning
    /\ gloop = "running"
    /\ gctx = "cancelled"
    /\ gloop' = "exited"
    /\ gsubs' = [w \in Watchers |->
                    IF gsubs[w].inMap
                    THEN [gsubs[w] EXCEPT !.inMap = FALSE, !.innerClosed = TRUE]
                    ELSE gsubs[w]]
    /\ gpanic' = IF \E w \in Watchers : gsubs[w].inMap /\ gsubs[w].innerClosed
                 THEN "close of closed channel" ELSE ""
    /\ UNCHANGED <<gchained, glatest, gctx, gcloses, gseen>>
    /\ UNCHANGED <<bvars, cvars, vvars, rvars, hvars, ovars, wvars, avars, kvars, mvars, nvars, pvars>>

\* Client.Close: c.cancel(); return nil
GClose ==
    /\ GRunning
    /\ gcloses < 2
    /\ gctx' = "cancelled"
    /\ gcloses' = gcloses + 1
    /\ UNCHANGED <<gchained, glatest, gloop, gsubs, gpanic, gseen>>
    /\ UNCHANGED <<bvars, cvars, vvars, rvars, hvars, ovars, wvars, avars, kvars, mvars, nvars, pvars>>

\* Client.Watch(ctx): the channels are made, innerCh is subscribed and the
\* goroutine is started
GWatch(w) ==
    /\ GRunning
    /\ gsubs[w].st = "none"
    /\ gsubs' = [gsubs EXCEPT ![w] = [NoWatch EXCEPT !.st = "watching", !.inMap = TRUE]]
    /\ UNCHANGED <<gchained, glatest, gctx, gloop, gcloses, gpanic, gseen>>
    /\ UNCHANGED <<bvars, cvars, vvars, rvars, hvars, ovars, wvars, avars, kvars, mvars, nvars, pvars>>

\* the goroutine of Watch receives from innerCh and sends on outerCh without
\* blocking
GForward(w) ==
    /\ GRunning
    /\ gsubs[w].st = "watching"
    /\ gsubs[w].inner # <<>>
    /\ gsubs' = [gsubs EXCEPT ![w] = [@ EXCEPT !.inner = Tail(@),
                                               !.outer = TrySend(@, Head(gsubs[w].inner))]]
    /\ UNCHANGED <<gchained, glatest, gctx, gloop, gcloses, gpanic, gseen>>
    /\ UNCHANGED <<bvars, cvars, vvars, rvars, hvars, ovars, wvars, avars, kvars, mvars, nvars, pvars>>

\* the goroutine of Watch finds innerCh closed and empty: it returns, closing
\* outerCh
GInnerClosed(w) ==
    /\ GRunning
    /\ gsubs[w].st = "watching"
    /\ gsubs[w].innerClosed
    /\ gsubs[w].inner = <<>>
    /\ gsubs' = [gsubs EXCEPT ![w] = [@ EXCEPT !.st = "returned"]]
    /\ UNCHANGED <<gchained, glatest, gctx, gloop, gcloses, gpanic, gseen>>
    /\ UNCHANGED <<bvars, cvars, vvars, rvars, hvars, ovars, wvars, avars, kvars, mvars, nvars, pvars>>

\* the caller cancels the context it passed to Watch
GCancel(w) ==
    /\ GRunning
    /\ gsubs[w].st = "watching"
    /\ ~gsubs[w].ctxDone
    /\ gsubs' = [gsubs EXCEPT ![w] = [@ EXCEPT !.ctxDone = TRUE]]
    /\ UNCHANGED <<gchained, glatest, gctx, gloop, gcloses, gpanic, gseen>>
    /\ UNCHANGED <<bvars, cvars, vvars, rvars, hvars, ovars, wvars, avars, kvars, mvars, nvars, pvars>>

\* the goroutine of Watch takes the case <-ctx.Done(): end() removes innerCh
\* from the map and closes it, then the goroutine returns, closing outerCh
GWatchDone(w) ==
    /\ GRunning
    /\ gsubs[w].st = "watching"
    /\ gsubs[w].ctxDone
    /\ IF gsubs[w].innerClosed
       THEN /\ gpanic' = "close of closed channel"
            /\ gsubs' = [gsubs EXCEPT ![w] = [@ EXCEPT !.inMap = FALSE]]
       ELSE /\ gpanic' = ""
            /\ gsubs' = [gsubs EXCEPT ![w] = [@ EXCEPT !.inMap = FALSE,
                                                       !.innerClosed = TRUE,
                                                       !.st = "returned"]]
    /\ UNCHANGED <<gchained, glatest, gctx, gloop, gcloses, gseen>>
    /\ UNCHANGED <<bvars, cvars, vvars, rvars, hvars, ovars, wvars, avars, kvars, mvars, nvars, pvars>>

\* the consumer receives from the channel Watch returned
GReceive(w) ==
    /\ GRunning
    /\ gsubs[w].outer # <<>>
    /\ gsubs' = [gsubs EXCEPT ![w] = [@ EXCEPT !.outer = Tail(@),
                                               !.last = Head(gsubs[w].outer),
                                               !.ordered = @ /\ Head(gsubs[w].outer) > gsubs[w].last]]
    /\ UNCHANGED <<gchained, glatest, gctx, gloop, gcloses, gpanic, gseen>>
    /\ UNCHANGED <<bvars, cvars, vvars, rvars, hvars, ovars, wvars, avars, kvars, mvars, nvars, pvars>>

GossipNext ==
    \/ \E m \in GMessages : GDispatch(m)
    \/ GShutdown
    \/ GClose
    \/ \E w \in Watchers : GWatch(w)
    \/ \E w \in Watchers : GForward(w)
    \/ \E w \in Watchers : GInnerClosed(w)
    \/ \E w \in Watchers : GCancel(w)
    \/ \E w \in Watchers : GWatchDone(w)
    \/ \E w \in Watchers : GReceive(w)

GossipSpec == GossipInit /\ [][GossipNext]_vars

\* the rounds in s are strictly increasing
Increasing(s) == \A i \in 1..(Len(s) - 1) : s[i] < s[i + 1]

\* C17: on every channel returned by Watch the rounds delivered are strictly
\* increasing; the client never dispatches a beacon whose round is not greater
\* than the highest round it has already dispatched.
C17_RoundsIncrease ==
    \A w \in Watchers :
        /\ gsubs[w].ordered
        /\ Increasing(<<gsubs[w].last>> \o gsubs[w].outer \o gsubs[w].inner \o <<glatest + 1>>)

\* a consumer received a round from the channel of Watch and a higher round is
\* waiting in the channel, while another consumer has received that higher round
C17_Witness ==
    \E w, x \in Watchers :
        /\ w # x
        /\ gsubs[w].last >= 1
        /\ gsubs[w].outer # <<>>
        /\ gsubs[x].last = Head(gsubs[w].outer)

\* a dispatch that hands a beacon to the subscribers: each subscriber in the
\* map gets it when its buffer has room and keeps its buffer as it is when full
C31_DispatchStep ==
    glatest' # glatest =>
        \A w \in Watchers :
            gsubs'[w].inner =
                IF gsubs[w].inMap /\ Len(gsubs[w].inner) < WatchBufferSize
                THEN Append(gsubs[w].inner, glatest')
                ELSE gsubs[w].inner

\* the dispatch loop can take its next message whatever the buffers hold
C31_NeverWaits ==
    (gpanic = "" /\ gloop = "running" /\ gctx = "live")
        => \A m \in GMessages : ENABLED GDispatch(m)

\* C31: the dispatch of the gossip client is best-effort and non-blocking: when
\* the buffer of a subscriber is full the beacon is dropped for that subscriber
\* only, every other subscriber with room in its buffer still receives it, and
\* the dispatch loop never waits on a subscriber.
C31_DispatchNonBlocking == [][C31_DispatchStep]_vars /\ []C31_NeverWaits

\* a beacon was dropped for a subscriber whose buffer was full while the other
\* subscriber received it
C31_Witness ==
    \E w, x \in Watchers :
        /\ gsubs[w].inMap /\ gsubs[x].inMap
        /\ Len(gsubs[w].inner) = WatchBufferSize
        /\ gsubs[w].inner[Len(gsubs[w].inner)] < glatest
        /\ gsubs[x].inner # <<>>
        /\ gsubs[x].inner[Len(gsubs[x].inner)] = glatest

\* C39: the latest counter of the gossip client only ever takes the round of a
\* beacon that decoded and passed the verification of its signature: an
\* undecodable or invalidly signed message never advances it, whatever its
\* round, and so cannot suppress the later delivery of valid rounds.
C39_LatestOnlyFromVerified ==
    /\ gseen.genuine
    /\ glatest \in 0..MaxRound

\* an invalidly signed message of a round was dropped, and the valid beacon of
\* a round not above it was dispatched afterwards and is in a subscriber's buffer
C39_Witness ==
    /\ gseen.dropped >= glatest /\ glatest >= 1
    /\ \E w \in Watchers :
          gsubs[w].inner # <<>> /\ gsubs[w].inner[Len(gsubs[w].inner)] = glatest

\* the goroutines of the gossip client are scheduled: the dispatch goroutine
\* and the goroutine of each Watch take the step they can take; the callers
\* (Close, Watch, cancelling a context, receiving) are under no obligation
GossipFairSpec ==
    /\ GossipSpec
    /\ WF_vars(GShutdown)
    /\ \A w \in Watchers :
          WF_vars(GForward(w)) /\ WF_vars(GInnerClosed(w)) /\ WF_vars(GWatchDone(w))

\* C33: the notification channels of the gossip client are closed when the
\* client is closed: once Close has been called, every channel returned by
\* Watch, called before or after Close, is eventually closed (the goroutine of
\* Watch returns, which closes the channel), unless the process has panicked.
C33_ClosedWhenClientClosed ==
    \A w \in Watchers :
        (gcloses > 0 /\ gsubs[w].st = "watching")
            ~> (gsubs[w].st = "returned" \/ gpanic # "")

\* C37: in the gossip client no subscriber channel is ever closed twice and
\* nothing is ever sent on a closed channel, under every interleaving of the
\* dispatch, Close, the cancellation of a Watch context and the unsubscribe
\* function: the process never panics on a channel.
C37_NoDoubleClose ==
    /\ gpanic = ""
    /\ \A w \in Watchers : gsubs[w].inMap => ~gsubs[w].innerClosed

(***************************************************************************)
(* HTTP client: specification                                              *)
(***************************************************************************)
HttpInit ==
    /\ HttpIdle
    /\ OptIdle
    /\ MergeIdle
    /\ AggIdle
    /\ WalkIdle
    /\ BuilderIdle
    /\ CacheIdle
    /\ VerifyIdle
    /\ ValidatorIdle
    /\ GossipIdle
    /\ HeartIdle
    /\ RelayIdle
    /\ PipeIdle

HRunning == hpanic = ""

\* New(ctx, l, url, chainHash, transport), the relay answering a to the info
\* request
HNew(chainHash, a) ==
    /\ hphase = "new"
    /\ hhash' = chainHash
    /\ hfetched' = a
    /\ \E r \in {FetchChainInfo(chainHash, a)} :
          /\ hinfo' = r.info
          /\ hphase' = IF r.err = "" THEN "ready" ELSE "failed"
    /\ UNCHANGED <<hdone, hcloses, hget, hout, hpanic>>
    /\ UNCHANGED <<bvars, cvars, vvars, rvars, gvars, ovars, wvars, avars, kvars, mvars, nvars, pvars>>

\* NewWithInfo(l, url, info, transport)
HNewWithInfo(info) ==
    /\ hphase = "new"
    /\ hinfo' = info
    /\ hphase' = "ready"
    /\ UNCHANGED <<hhash, hfetched, hdone, hcloses, hget, hout, hpanic>>
    /\ UNCHANGED <<bvars, cvars, vvars, rvars, gvars, ovars, wvars, avars, kvars, mvars, nvars, pvars>>

\* httpClient.Get(ctx, round) up to its select: resC is made and the goroutine
\* of the request is started
HGet(round) ==
    /\ HRunning
    /\ hphase = "ready"
    /\ hget.st = "none"
    /\ hget' = [st |-> "select", round |-> round, resC |-> EmptyResC, closedAtCall |-> hdone]
    /\ hout' = HttpIdleOut
    /\ UNCHANGED <<hhash, hinfo, hphase, hfetched, hdone, hcloses, hpanic>>
    /\ UNCHANGED <<bvars, cvars, vvars, rvars, gvars, ovars, wvars, avars, kvars, mvars, nvars, pvars>>

\* the goroutine of the request sends on resC, the relay having answered a
HRespond(a) ==
    /\ HRunning
    /\ hget.st = "select"
    /\ hget.resC = EmptyResC
    /\ hget' = [hget EXCEPT !.resC = GetResponse(a)]
    /\ UNCHANGED <<hhash, hinfo, hphase, hfetched, hdone, hcloses, hout, hpanic>>
    /\ UNCHANGED <<bvars, cvars, vvars, rvars, gvars, ovars, wvars, avars, kvars, mvars, nvars, pvars>>

\* the select of Get takes case res := <-resC
HGetResult ==
    /\ HRunning
    /\ hget.st = "select"
    /\ hget.resC # EmptyResC
    /\ hout' = [op |-> "Get", round |-> hget.round, err |-> hget.resC.err,
                res |-> hget.resC.res, closedAtCall |-> hget.closedAtCall]
    /\ hget' = NoGet
    /\ UNCHANGED <<hhash, hinfo, hphase, hfetched, hdone, hcloses, hpanic>>
    /\ UNCHANGED <<bvars, cvars, vvars, rvars, gvars, ovars, wvars, avars, kvars, mvars, nvars, pvars>>

\* the select of Get takes case <-h.done
HGetClosed ==
    /\ HRunning
    /\ hget.st = "select"
    /\ hdone
    /\ hout' = [op |-> "Get", round |-> hget.round, err |-> "client closed",
                res |-> NilRes, closedAtCall |-> hget.closedAtCall]
    /\ hget' = NoGet
    /\ UNCHANGED <<hhash, hinfo, hphase, hfetched, hdone, hcloses, hpanic>>
    /\ UNCHANGED <<bvars, cvars, vvars, rvars, gvars, ovars, wvars, avars, kvars, mvars, nvars, pvars>>

\* httpClient.Close: close(h.done), which panics when h.done is closed already
HClose ==
    /\ HRunning
    /\ hphase = "ready"
    /\ IF hdone
       THEN /\ hpanic' = "close of closed channel"
            /\ UNCHANGED <<hdone, hcloses>>
       ELSE /\ hdone' = TRUE
            /\ hcloses' = hcloses + 1
            /\ hpanic' = ""
    /\ UNCHANGED <<hhash, hinfo, hphase, hfetched, hget, hout>>
    /\ UNCHANGED <<bvars, cvars, vvars, rvars, gvars, ovars, wvars, avars, kvars, mvars, nvars, pvars>>

HttpNext ==
    \/ \E chainHash \in Hashes \cup {NilHash}, a \in HInfoAnswers : HNew(chainHash, a)
    \/ \E info \in Infos : HNewWithInfo(info)
    \/ \E round \in GRounds : HGet(round)
    \/ \E a \in HGetAnswers : HRespond(a)
    \/ HGetResult
    \/ HGetClosed
    \/ HClose

HttpSpec == HttpInit /\ [][HttpNext]_vars

\* C18: Close is idempotent on every client: a second Close (HTTP client,
\* gossip client, watcher wrapper) returns normally, without error or panic,
\* and leaves the client closed as a single call does. Here for the HTTP
\* client: no call of Close panics.
C18_CloseIdempotent == hdone => hpanic = ""

\* C19: after Close has returned, every Get returns the "client closed" error
\* and never a result, however the goroutine of the request and the closed
\* signal interleave.
C19_GetAfterCloseFails ==
    (hout.op = "Get" /\ hout.closedAtCall) => (hout.err = "client closed" /\ hout.res = NilRes)

\* C20: constructing an HTTP client with a chain hash fails whenever the chain
\* info fetched from the relay hashes to another value, and the chain info of a
\* client constructed with a chain hash hashes to that chain hash.
C20_InfoMatchesSuppliedHash ==
    (hhash # NilHash /\ hphase # "new") =>
        /\ (hfetched.kind = "info" /\ Hash(hfetched.info) # hhash) => hphase = "failed"
        /\ hphase = "ready" => (hinfo # NilInfo /\ Hash(hinfo) = hhash)

\* New was given a chain hash, the relay answered with a chain info that has a
\* public key and hashes to another value, and New failed
C20_Witness ==
    /\ hhash # NilHash
    /\ hfetched.kind = "info" /\ hfetched.key
    /\ Hash(hfetched.info) # hhash
    /\ hhash \in {Hash(i) : i \in Infos}
    /\ hphase = "failed"

\* C21: a transport client rejects a relay response whose round is 0 and a
\* response whose signature is empty: neither is ever returned from Get. Here
\* for the HTTP client.
C21_NoRoundZeroNoEmptySignature ==
    (hout.op = "Get" /\ hout.err = "")
        => (hout.res # NilRes /\ hout.res.round # 0 /\ hout.res.sig # EmptySig)

(***************************************************************************)
(* Optimizing client: specification                                        *)
(***************************************************************************)
\* newOptimizingClient and the speed test, which ranks the backends
OptInit ==
    /\ orank \in Rankings
    /\ oget = NoRace
    /\ oout = OptIdleOut
    /\ MergeIdle
    /\ AggIdle
    /\ WalkIdle
    /\ BuilderIdle
    /\ CacheIdle
    /\ VerifyIdle
    /\ ValidatorIdle
    /\ GossipIdle
    /\ HttpIdle
    /\ HeartIdle
    /\ RelayIdle
    /\ PipeIdle

\* the race after a request to backend b has been started
Started(race, b) ==
    [race EXCEPT !.attempted = @ \cup {b}, !.inflight = @ \cup {b}, !.attempts = @ + 1]

\* Get: the request is sent to the best-ranked backend
OGet ==
    /\ oget.st = "idle"
    /\ oget' = Started([NoRace EXCEPT !.st = "racing"], NextBackend(orank, {}))
    /\ oout' = OptIdleOut
    /\ UNCHANGED orank
    /\ UNCHANGED <<bvars, cvars, vvars, rvars, gvars, hvars, wvars, avars, kvars, mvars, nvars, pvars>>

\* the staggered start of the request to the next backend, while fewer than
\* RaceWidth requests are in flight
OStagger ==
    /\ oget.st = "racing"
    /\ Cardinality(oget.inflight) < RaceWidth
    /\ NextBackend(orank, oget.attempted) # 0
    /\ oget' = Started(oget, NextBackend(orank, oget.attempted))
    /\ UNCHANGED <<orank, oout>>
    /\ UNCHANGED <<bvars, cvars, vvars, rvars, gvars, hvars, wvars, avars, kvars, mvars, nvars, pvars>>

\* what Get returns, the race being over
Finished(race, ok, err, b) ==
    [op |-> "Get", ok |-> ok, err |-> err, by |-> b, attempts |-> race.attempts,
     failed |-> race.failed, first |-> orank[1]]

\* the request to backend b ends: a success is returned and the other requests
\* are cancelled; after an error that falls through the next backend is asked,
\* and the error is returned when none is left; any other error is returned
OAnswer(b, kind) ==
    /\ oget.st = "racing"
    /\ b \in oget.inflight
    /\ \E race \in {[oget EXCEPT !.inflight = @ \ {b},
                                 !.failed = IF kind = "ok" THEN @ ELSE @ \cup {b}]} :
          IF kind = "ok"
          THEN /\ oout' = Finished(race, TRUE, "", b)
               /\ oget' = NoRace
          ELSE IF ~FallsThrough(kind)
          THEN /\ oout' = Finished(race, FALSE, kind, b)
               /\ oget' = NoRace
          ELSE IF race.inflight = {} /\ NextBackend(orank, race.attempted) = 0
          THEN /\ oout' = Finished(race, FALSE, kind, b)
               /\ oget' = NoRace
          ELSE IF race.inflight = {}
          THEN /\ oget' = Started(race, NextBackend(orank, race.attempted))
               /\ oout' = oout
          ELSE /\ oget' = race
               /\ oout' = oout
    /\ UNCHANGED orank
    /\ UNCHANGED <<bvars, cvars, vvars, rvars, gvars, hvars, wvars, avars, kvars, mvars, nvars, pvars>>

OptNext ==
    \/ OGet
    \/ OStagger
    \/ \E b \in Backends, kind \in AttemptAnswers : OAnswer(b, kind)

OptSpec == OptInit /\ [][OptNext]_vars

\* while a Get is in progress a request is in flight, and the backends asked
\* are the best-ranked ones
FallsOver ==
    oget.st = "racing" =>
        /\ oget.inflight # {}
        /\ orank[1] \in oget.attempted
        /\ \A i, j \in Backends : (i < j /\ orank[j] \in oget.attempted) => orank[i] \in oget.attempted

\* a success is returned whatever failed before it, and no Get makes more
\* attempts than there are backends
SuccessAndBound ==
    /\ oget.attempts <= MaxBackends
    /\ oout.op = "Get" =>
          /\ oout.attempts <= MaxBackends
          /\ oout.ok => oout.by \notin oout.failed

\* C22 as stated: the request falls through to the next backend when an attempt
\* fails, a result is returned as soon as a backend succeeds, the error is
\* surfaced only after every backend has failed, and the attempts never exceed
\* the number of backends.
C22_ErrorOnlyAfterAllFailed ==
    /\ FallsOver
    /\ SuccessAndBound
    /\ (oout.op = "Get" /\ ~oout.ok) => oout.failed = Backends

\* C22: the request falls through to the next backend when an attempt fails
\* with a network error, a result is returned as soon as a backend succeeds, a
\* network error is surfaced only after every backend has failed, a
\* verification or protocol error is surfaced at once, and the attempts never
\* exceed the number of backends.
C22_GetFailsOver ==
    /\ FallsOver
    /\ SuccessAndBound
    /\ (oout.op = "Get" /\ ~oout.ok) => (oout.failed = Backends \/ oout.err = "verification")
    /\ (oout.op = "Get" /\ ~oout.ok /\ oout.err = "network") => oout.failed = Backends

\* the best-ranked backend failed and a Get returned the result of another one
C22_Witness ==
    /\ oout.op = "Get" /\ oout.ok
    /\ oout.first \in oout.failed
    /\ oout.by # oout.first

(***************************************************************************)
(* Optimizing client, Watch: specification (spec 4.6 Watch policy, 4.7)    *)
(***************************************************************************)
\* the rankings a Watch starts from: the backends in their order and in the
\* opposite order
WatchRankings == {r \in Rankings : \A i \in Backends : r[i] = i} \cup
                 {r \in Rankings : \A i \in Backends : r[i] = MaxBackends + 1 - i}

MergeInit ==
    /\ orank \in WatchRankings
    /\ wpassive \in {p \in SUBSET Backends : p # Backends}
    /\ wretry \in BOOLEAN
    /\ wst = "none"
    /\ wactive = 0
    /\ wup = [b \in Backends |-> "none"]
    /\ wctx = "live"
    /\ wlatest = -1
    /\ wout = <<>>
    /\ wgot = NothingReceived
    /\ oget = NoRace
    /\ oout = OptIdleOut
    /\ BuilderIdle
    /\ CacheIdle
    /\ VerifyIdle
    /\ ValidatorIdle
    /\ GossipIdle
    /\ HttpIdle
    /\ AggIdle
    /\ WalkIdle
    /\ HeartIdle
    /\ RelayIdle
    /\ PipeIdle

\* Watch(ctx): the stream of the best backend becomes the active one and the
\* streams of the passive backends are subscribed too
WWatch ==
    /\ wst = "none"
    /\ wst' = "open"
    /\ wactive' = ActiveOrder(orank, wpassive)[1]
    /\ wup' = [b \in Backends |-> IF b \in wpassive \/ b = wactive' THEN "open" ELSE "none"]
    /\ UNCHANGED <<orank, oget, oout, wpassive, wretry, wctx, wlatest, wout, wgot>>
    /\ UNCHANGED <<bvars, cvars, vvars, rvars, gvars, hvars, avars, kvars, mvars, nvars, pvars>>

\* the stream of backend b delivers a round: it is emitted unless it is not
\* newer than the highest round emitted
WItem(b, round) ==
    /\ wst \in {"open", "waiting"}
    /\ wup[b] = "open"
    /\ IF NotNewer(wlatest, round)
       THEN UNCHANGED <<wlatest, wout, wgot>>
       ELSE /\ Len(wout) < WatchBufferSize
            /\ wlatest' = round
            /\ wout' = Append(wout, round)
            /\ wgot' = [wgot EXCEPT !.fresh = @ \/ (wgot.reopened /\ b = wactive)]
    /\ UNCHANGED <<orank, oget, oout, wpassive, wretry, wst, wactive, wup, wctx>>
    /\ UNCHANGED <<bvars, cvars, vvars, rvars, gvars, hvars, avars, kvars, mvars, nvars, pvars>>

\* the stream of backend b closes. When it is the active one: with a retry
\* interval the upstream is re-opened after the delay; without, the next-best
\* backend whose stream has not closed is promoted. The output closes when no
\* stream is left
WStreamClose(b) ==
    /\ wst \in {"open", "waiting"}
    /\ wup[b] = "open"
    /\ \E up \in {[wup EXCEPT ![b] = "closed"]} :
          IF b # wactive \/ wst = "waiting"
          THEN /\ wup' = up
               /\ wactive' = wactive
               /\ wst' = IF wst = "open" /\ wactive = 0 /\ \A x \in Backends : up[x] # "open"
                         THEN "closed" ELSE wst
          ELSE IF Retries(wretry)
          THEN /\ wup' = up
               /\ wactive' = wactive
               /\ wst' = "waiting"
          ELSE \E nb \in {NextBest(orank, wpassive, {x \in Backends : up[x] = "none"}, b)} :
                  /\ wactive' = nb
                  /\ wup' = IF nb = 0 THEN up ELSE [up EXCEPT ![nb] = "open"]
                  /\ wst' = IF nb = 0 /\ \A x \in Backends : up[x] # "open"
                            THEN "closed" ELSE wst
    /\ UNCHANGED <<orank, oget, oout, wpassive, wretry, wctx, wlatest, wout, wgot>>
    /\ UNCHANGED <<bvars, cvars, vvars, rvars, gvars, hvars, avars, kvars, mvars, nvars, pvars>>

\* the retry delay has passed and the context is live: the upstream is
\* re-opened, on the next-best backend
WRetry ==
    /\ wst = "waiting"
    /\ wctx = "live"
    /\ wactive' = NextBest(orank, wpassive, Backends \ wpassive, wactive)
    /\ wup' = [wup EXCEPT ![wactive'] = "open"]
    /\ wst' = "open"
    /\ wgot' = [wgot EXCEPT !.reopened = TRUE]
    /\ UNCHANGED <<orank, oget, oout, wpassive, wretry, wctx, wlatest, wout>>
    /\ UNCHANGED <<bvars, cvars, vvars, rvars, gvars, hvars, avars, kvars, mvars, nvars, pvars>>

\* the caller cancels the context it passed to Watch
WCancel ==
    /\ wst \in {"open", "waiting"}
    /\ wctx = "live"
    /\ wctx' = "cancelled"
    /\ UNCHANGED <<orank, oget, oout, wpassive, wretry, wst, wactive, wup, wlatest, wout, wgot>>
    /\ UNCHANGED <<bvars, cvars, vvars, rvars, gvars, hvars, avars, kvars, mvars, nvars, pvars>>

\* the context being cancelled, the streams are left and the output is closed
WDone ==
    /\ wst \in {"open", "waiting"}
    /\ wctx = "cancelled"
    /\ wst' = "closed"
    /\ wactive' = 0
    /\ wup' = [b \in Backends |-> IF wup[b] = "open" THEN "closed" ELSE wup[b]]
    /\ UNCHANGED <<orank, oget, oout, wpassive, wretry, wctx, wlatest, wout, wgot>>
    /\ UNCHANGED <<bvars, cvars, vvars, rvars, gvars, hvars, avars, kvars, mvars, nvars, pvars>>

\* the consumer receives from the output channel
WReceive ==
    /\ wout # <<>>
    /\ wout' = Tail(wout)
    /\ wgot' = [wgot EXCEPT !.last = Head(wout),
                            !.ordered = @ /\ Head(wout) > wgot.last,
                            !.n = IF @ < 2 THEN @ + 1 ELSE @]
    /\ UNCHANGED <<orank, oget, oout, wpassive, wretry, wst, wactive, wup, wctx, wlatest>>
    /\ UNCHANGED <<bvars, cvars, vvars, rvars, gvars, hvars, avars, kvars, mvars, nvars, pvars>>

MergeNext ==
    \/ WWatch
    \/ \E b \in Backends, round \in WRounds : WItem(b, round)
    \/ \E b \in Backends : WStreamClose(b)
    \/ WRetry
    \/ WCancel
    \/ WDone
    \/ WReceive

MergeSpec == MergeInit /\ [][MergeNext]_vars

\* the scheduling of the retry: the timer of the delay fires
MergeFairSpec == MergeSpec /\ WF_vars(WRetry)

\* C23: the output of the optimizing client's Watch contains each round at
\* most once and in strictly increasing order, also when several backends
\* deliver the same round or an older round arrives after a newer one.
C23_OutputIncreases ==
    /\ wgot.ordered
    /\ Increasing(<<wgot.last>> \o wout \o <<wlatest + 1>>)

\* the consumer received two rounds while the streams of several backends
\* were delivering
C23_Witness ==
    /\ wgot.n >= 2
    /\ Cardinality({b \in Backends : wup[b] = "open"}) >= 2
    /\ wlatest > wgot.last

\* with a retry interval the output is not closed while the context is live
C24_NotClosedByUpstream == (wretry /\ wctx = "live") => wst # "closed"

\* a closed upstream is re-opened after the delay unless the context is
\* cancelled
C24_Reopened == (wst = "waiting") ~> (wst = "open" \/ wctx = "cancelled")

AggInit ==
    /\ aauto \in BOOLEAN
    /\ awc \in BOOLEAN
    /\ asub = IF AutoWatches(aauto) THEN "open" ELSE "none"
    /\ awatchers = 0
    /\ areach = TRUE
    /\ ayield = {}
    /\ aclosed = {}
    /\ aout = AggIdleOut
    /\ averified = {}
    /\ ccache = EmptyCache
    /\ csize \in 0..CacheCap
    /\ cphase = "idle"
    /\ cout = CacheIdleOut
    /\ track = 0
    /\ fetched = [res |-> NilRes, replaced |-> FALSE]
    /\ watched = NotWatched
    /\ BuilderIdle
    /\ VerifyIdle
    /\ ValidatorIdle
    /\ GossipIdle
    /\ HttpIdle
    /\ OptIdle
    /\ MergeIdle
    /\ WalkIdle
    /\ HeartIdle
    /\ RelayIdle
    /\ PipeIdle

\* a caller calls Watch on the client: the upstream subscription is opened if
\* it is not open yet
AWatch ==
    /\ aclosed = {}
    /\ awatchers = 0
    /\ awatchers' = 1
    /\ asub' = "open"
    /\ UNCHANGED <<aauto, awc, areach, ayield, aclosed, aout, averified>>
    /\ UNCHANGED cvars
    /\ UNCHANGED <<bvars, vvars, rvars, gvars, hvars, ovars, wvars, kvars, mvars, nvars, pvars>>

\* the upstream subscription yields a round: it comes through the Watch of the
\* caching client, when there is one, which stores it
AYield(round) ==
    /\ asub = "open"
    /\ areach
    /\ ccache' \in IF HasCachingLayer(csize)
                   THEN WatchAdd(ccache, csize, AResult(round))
                   ELSE {ccache}
    /\ ayield' = IF awatchers = 0 THEN ayield \cup {round} ELSE ayield
    /\ averified' = (averified \cup {round}) \cap CacheKeys(ccache')
    /\ UNCHANGED <<aauto, awc, asub, awatchers, areach, aclosed, aout>>
    /\ UNCHANGED <<csize, cphase, cout, track, fetched, watched>>
    /\ UNCHANGED <<bvars, vvars, rvars, gvars, hvars, ovars, wvars, kvars, mvars, nvars, pvars>>

\* every backend becomes unreachable
AUnreachable ==
    /\ areach
    /\ areach' = FALSE
    /\ UNCHANGED <<aauto, awc, asub, awatchers, ayield, aclosed, aout, averified>>
    /\ UNCHANGED cvars
    /\ UNCHANGED <<bvars, vvars, rvars, gvars, hvars, ovars, wvars, kvars, mvars, nvars, pvars>>

\* Get(ctx, round) on the client: the caching client, when there is one,
\* answers from the cache or asks the optimizing client and stores the answer
AGet(round) ==
    /\ aclosed = {}
    /\ \E val \in {IF HasCachingLayer(csize) THEN TryGet(ccache, csize, round) ELSE NilRes} :
          /\ aout' = [op |-> "Get", round |-> round,
                      ok |-> val # NilRes \/ areach,
                      called |-> val = NilRes,
                      preYielded |-> round \in ayield,
                      preCached |-> ccache[round] # NilRes,
                      reach |-> areach,
                      got |-> IF val # NilRes \/ areach
                              THEN aout.got \cup {round} ELSE aout.got,
                      walked |-> IF val # NilRes THEN round \in averified ELSE areach]
          /\ ccache' \in IF val = NilRes /\ areach /\ HasCachingLayer(csize)
                         THEN Add(ccache, csize, GetKey(round, AResult(round)), AResult(round))
                         ELSE {ccache}
          /\ averified' = IF val = NilRes /\ areach
                          THEN (averified \cup {round}) \cap CacheKeys(ccache')
                          ELSE averified
    /\ UNCHANGED <<aauto, awc, asub, awatchers, areach, ayield, aclosed>>
    /\ UNCHANGED <<csize, cphase, cout, track, fetched, watched>>
    /\ UNCHANGED <<bvars, vvars, rvars, gvars, hvars, ovars, wvars, kvars, mvars, nvars, pvars>>

\* the watcher being a gossip client built with the cache of makeClient and its
\* subscription being open, the goroutine of its Watch stores a beacon the
\* dispatch handed it: c.cache.Add(resp.GetRound(), dat), before the beacon
\* goes up, through outerCh, to the verifying client
AGossipAdd(round) ==
    /\ asub = "open"
    /\ areach
    /\ ccache' \in Add(ccache, csize, round, GossipData(round))
    /\ averified' = (averified \ {round}) \cap CacheKeys(ccache')
    /\ UNCHANGED <<aauto, awc, asub, awatchers, areach, ayield, aclosed, aout>>
    /\ UNCHANGED <<csize, cphase, cout, track, fetched, watched>>
    /\ UNCHANGED <<bvars, vvars, rvars, gvars, hvars, ovars, wvars, kvars, mvars, nvars, pvars>>

\* Close on the client: the aggregator cancels the auto-watch and closes the
\* client it wraps
ACloseAggregator ==
    /\ "aggregator" \notin aclosed
    /\ aclosed' = aclosed \cup {"aggregator"} \cup UnderlyingClose(csize, awc)
    /\ asub' = IF asub = "open" THEN "cancelled" ELSE asub
    /\ UNCHANGED <<aauto, awc, awatchers, areach, ayield, aout, averified>>
    /\ UNCHANGED cvars
    /\ UNCHANGED <<bvars, vvars, rvars, gvars, hvars, ovars, wvars, kvars, mvars, nvars, pvars>>

\* Close called on the caching client
ACloseCaching ==
    /\ HasCachingLayer(csize)
    /\ "caching" \notin aclosed
    /\ aclosed' = aclosed \cup CachingClose(OptimizingClose(awc))
    /\ UNCHANGED <<aauto, awc, asub, awatchers, areach, ayield, aout, averified>>
    /\ UNCHANGED cvars
    /\ UNCHANGED <<bvars, vvars, rvars, gvars, hvars, ovars, wvars, kvars, mvars, nvars, pvars>>

\* Close called on the watcher client
ACloseWatcherClient ==
    /\ "watcherClient" \notin aclosed
    /\ aclosed' = aclosed \cup WatcherClose(awc)
    /\ UNCHANGED <<aauto, awc, asub, awatchers, areach, ayield, aout, averified>>
    /\ UNCHANGED cvars
    /\ UNCHANGED <<bvars, vvars, rvars, gvars, hvars, ovars, wvars, kvars, mvars, nvars, pvars>>

AggNext ==
    \/ AWatch
    \/ \E round \in ARounds : AYield(round)
    \/ AUnreachable
    \/ \E round \in ARounds : AGet(round)
    \/ \E round \in ARounds : AGossipAdd(round)
    \/ ACloseAggregator
    \/ ACloseCaching
    \/ ACloseWatcherClient

AggSpec == AggInit /\ [][AggNext]_vars

\* C25 as stated: with auto-watch the upstream subscription is opened at
\* construction, every round it yields is inserted into the cache although no
\* caller has called Watch, and a later Get of such a round succeeds from the
\* cache even when every backend has become unreachable.
C25_AutoWatchedGetSucceeds ==
    /\ (aauto /\ aclosed = {}) => asub = "open"
    /\ (aout.op = "Get" /\ aout.preYielded /\ ~aout.reach) => (aout.ok /\ ~aout.called)

\* the subscription of the auto-watch is open from the construction on
C25_OpenedAtConstruction == (aauto /\ aclosed = {}) => asub = "open"

\* a round yielded with no caller watching is stored by the caching client
C25_YieldInserts ==
    \A round \in ayield' \ ayield : HasCachingLayer(csize) => ccache'[round] = AResult(round)

\* a Get of a yielded round that is in the cache succeeds without a backend
C25_HitWhileCached ==
    (aout.op = "Get" /\ aout.preYielded /\ aout.preCached /\ ~aout.reach)
        => (aout.ok /\ ~aout.called)

\* C25 (amended): with auto-watch the upstream subscription is opened at
\* construction and, with a positive cache size, every round it yields is
\* inserted into the cache although no caller has called Watch; a later Get of
\* such a round succeeds from the cache, even when every backend has become
\* unreachable, as long as the round has not been evicted.
C25_AutoWatchFillsCache ==
    /\ [](C25_OpenedAtConstruction /\ C25_HitWhileCached)
    /\ [][C25_YieldInserts]_vars

\* no caller has called Watch, the backends are unreachable, and a Get of a
\* round the auto-watch yielded has been answered from the cache
C25_Witness ==
    /\ aauto /\ awatchers = 0
    /\ aout.op = "Get" /\ aout.preYielded /\ aout.preCached /\ ~aout.reach
    /\ aout.ok /\ ~aout.called

\* C26: with cache size 0 nothing is ever cached: Add leaves the cache
\* unchanged, TryGet always reports absent, no caching layer is inserted, and
\* every Get reaches a backend, so that a Get after the backends went away
\* fails although the same request succeeded before.
C26_NothingCachedWithSizeZero ==
    csize = 0 =>
        /\ ccache = EmptyCache
        /\ \A round \in ARounds :
              /\ Add(ccache, csize, round, AResult(round)) = {ccache}
              /\ TryGet(ccache, csize, round) = NilRes
        /\ "caching" \notin aclosed
        /\ aout.op = "Get" => (aout.called /\ (aout.ok <=> aout.reach))

\* with cache size 0 a Get fails after the backends went away although a Get
\* of the same round succeeded before, a round having been yielded meanwhile
C26_Witness ==
    /\ csize = 0
    /\ aout.op = "Get" /\ ~aout.ok /\ aout.round \in aout.got
    /\ ayield # {}
    /\ "optimizing" \in aclosed

\* C27: Close on a wrapper closes every client it wraps: closing the caching
\* client closes the wrapped client, closing the watcher client closes the
\* watcher (when it can be closed) and the embedded client, and closing the
\* watch aggregator cancels the auto-watch and closes the underlying client.
C27_CloseReachesWrapped ==
    /\ "caching" \in aclosed => "optimizing" \in aclosed
    /\ "watcherClient" \in aclosed
          => ("embedded" \in aclosed /\ (awc => "watcher" \in aclosed))
    /\ "aggregator" \in aclosed
          => /\ asub # "open"
             /\ (IF csize > 0 THEN "caching" ELSE "optimizing") \in aclosed

\* the aggregator of a client with auto-watch, a cache and a watcher that can
\* be closed has been closed
C27_Witness ==
    /\ "aggregator" \in aclosed
    /\ aauto /\ asub = "cancelled"
    /\ csize > 0 /\ "caching" \in aclosed
    /\ awc /\ "watcher" \in aclosed

(***************************************************************************)
(* The trust walk of the verifying client, step by step and by several     *)
(* goroutines (verify.go getTrustedPreviousSignature)                      *)
(***************************************************************************)
WalkInit ==
    /\ kchained \in BOOLEAN
    /\ kcached \in BOOLEAN
    /\ kpot \in {NilRes} \cup {Beacon(kchained, "RandomData", j) : j \in 1..MaxRound}
    /\ klock = ""
    /\ kw = [g \in Walkers |-> NoWalk]
    /\ BuilderIdle
    /\ CacheIdle
    /\ VerifyIdle
    /\ ValidatorIdle
    /\ GossipIdle
    /\ HttpIdle
    /\ OptIdle
    /\ MergeIdle
    /\ AggIdle
    /\ HeartIdle
    /\ RelayIdle
    /\ PipeIdle

\* getTrustedPreviousSignature(ctx, round) is called: Info answers, and round 1
\* returns info.GenesisSeed at once
KCall(g, round) ==
    /\ kw[g].pc = "idle"
    /\ kw' = [kw EXCEPT ![g] =
                 IF round = 1
                 THEN [NoWalk EXCEPT !.pc = "done", !.round = round, !.ps = GenesisSeed]
                 ELSE [NoWalk EXCEPT !.pc = "locking", !.round = round]]
    /\ UNCHANGED <<kchained, kcached, kpot, klock>>
    /\ UNCHANGED <<bvars, cvars, vvars, rvars, gvars, hvars, ovars, wvars, avars, mvars, nvars, pvars>>

\* v.potLk.Lock()
KLock(g) ==
    /\ kw[g].pc = "locking"
    /\ klock = ""
    /\ klock' = g
    /\ kw' = [kw EXCEPT ![g].pc = "reading"]
    /\ UNCHANGED <<kchained, kcached, kpot>>
    /\ UNCHANGED <<bvars, cvars, vvars, rvars, gvars, hvars, ovars, wvars, avars, mvars, nvars, pvars>>

\* the point of trust is read under the lock and the lock released: without
\* one, or with one above the round, the slow path starts at round 1 with
\* the genesis seed
KRead(g) ==
    /\ kw[g].pc = "reading"
    /\ LET slow == kpot = NilRes \/ kpot.round > kw[g].round
       IN kw' = [kw EXCEPT ![g].pc = "walking",
                           ![g].trustRound = IF slow THEN 1 ELSE kpot.round,
                           ![g].initial = IF slow THEN 1 ELSE kpot.round,
                           ![g].ps = IF slow THEN GenesisSeed ELSE kpot.sig,
                           ![g].fresh = slow]
    /\ klock' = Unlock(g)
    /\ UNCHANGED <<kchained, kcached, kpot>>
    /\ UNCHANGED <<bvars, cvars, vvars, rvars, gvars, hvars, ovars, wvars, avars, mvars, nvars, pvars>>

\* one turn of the loop: trustRound++, v.indirectClient.Get(ctx, trustRound)
\* and VerifyBeacon with trustPrevSig. In the cached stack the fetch comes back
\* to this verifier, whose nested call takes v.potLk to read the point of trust
KFetch(g, answers) ==
    /\ kw[g].pc = "walking"
    /\ kw[g].trustRound < UintSub(kw[g].round, 1)
    /\ kcached => klock = ""
    /\ LET tr == kw[g].trustRound + 1
           next == Beacon(kchained, "RandomData", tr)
       IN kw' = [kw EXCEPT ![g] =
                    IF ~answers \/ tr > MaxRound
                    THEN [@ EXCEPT !.pc = "done", !.trustRound = tr, !.err = "could not get round"]
                    ELSE IF ~VerifyBeacon(kchained, kw[g].ps, tr, next.sig)
                    THEN [@ EXCEPT !.pc = "done", !.trustRound = tr, !.err = "verifying beacon",
                                   !.checked = tr, !.with = kw[g].ps]
                    ELSE [@ EXCEPT !.trustRound = tr, !.next = next, !.ps = next.sig,
                                   !.checked = tr, !.with = kw[g].ps]]
    /\ UNCHANGED <<kchained, kcached, kpot, klock>>
    /\ UNCHANGED <<bvars, cvars, vvars, rvars, gvars, hvars, ovars, wvars, avars, mvars, nvars, pvars>>

\* the loop has ended: the advance is published when there is one
KEndLoop(g) ==
    /\ kw[g].pc = "walking"
    /\ ~(kw[g].trustRound < UintSub(kw[g].round, 1))
    /\ kw' = [kw EXCEPT ![g] =
                 IF kw[g].trustRound = UintSub(kw[g].round, 1) /\ kw[g].trustRound > kw[g].initial
                 THEN [@ EXCEPT !.pc = "relocking"]
                 ELSE IF kw[g].trustRound # UintSub(kw[g].round, 1)
                 THEN [@ EXCEPT !.pc = "done", !.err = "unexpected trust round"]
                 ELSE [@ EXCEPT !.pc = "done"]]
    /\ UNCHANGED <<kchained, kcached, kpot, klock>>
    /\ UNCHANGED <<bvars, cvars, vvars, rvars, gvars, hvars, ovars, wvars, avars, mvars, nvars, pvars>>

\* v.potLk.Lock() before the publication
KRelock(g) ==
    /\ kw[g].pc = "relocking"
    /\ klock = ""
    /\ klock' = g
    /\ kw' = [kw EXCEPT ![g].pc = "publishing"]
    /\ UNCHANGED <<kchained, kcached, kpot>>
    /\ UNCHANGED <<bvars, cvars, vvars, rvars, gvars, hvars, ovars, wvars, avars, mvars, nvars, pvars>>

\* v.pointOfTrust = next; v.potLk.Unlock()
KPublish(g) ==
    /\ kw[g].pc = "publishing"
    /\ kpot' = kw[g].next
    /\ klock' = ""
    /\ kw' = [kw EXCEPT ![g].pc = "done"]
    /\ UNCHANGED <<kchained, kcached>>
    /\ UNCHANGED <<bvars, cvars, vvars, rvars, gvars, hvars, ovars, wvars, avars, mvars, nvars, pvars>>

\* the call returns trustPrevSig or the error
KReturn(g) ==
    /\ kw[g].pc = "done"
    /\ kw' = [kw EXCEPT ![g] = NoWalk]
    /\ UNCHANGED <<kchained, kcached, kpot, klock>>
    /\ UNCHANGED <<bvars, cvars, vvars, rvars, gvars, hvars, ovars, wvars, avars, mvars, nvars, pvars>>

\* a step of a call in progress
KStep ==
    \E g \in Walkers :
        \/ KLock(g)
        \/ KRead(g)
        \/ \E answers \in BOOLEAN : KFetch(g, answers)
        \/ KEndLoop(g)
        \/ KRelock(g)
        \/ KPublish(g)
        \/ KReturn(g)

WalkNext ==
    \/ \E g \in Walkers, round \in 1..(MaxRound + 1) : KCall(g, round)
    \/ KStep

WalkSpec == WalkInit /\ [][WalkNext]_vars

\* C28: the round of the stored point of trust never decreases, whatever the
\* sequence and the interleaving of strict verifications, requests for rounds
\* below the point of trust and concurrent walks included.
C28_PotNeverDecreases == [][PotRound(kpot') >= PotRound(kpot)]_vars

\* C29: in a trust walk the rounds are fetched and verified in increasing order
\* and each round i is verified with the signature of round i-1 (the genesis
\* seed for i = 1), from a stored point of trust and from round 1 alike.
C29_VerifiedWithPrevious ==
    \A g \in Walkers :
        kw[g].checked # 0 =>
            /\ kw[g].checked = kw[g].trustRound
            /\ kw[g].with = PrevOf(kw[g].checked)

\* C30: the point-of-trust mutex is never held while the verifier calls the
\* indirect client: it is held only to read the point of trust and to publish
\* the advance, so a walk whose fetch re-enters the verifier and concurrent
\* walks do not deadlock on it: while a call is in progress a step of some
\* call can be taken.
C30_LockNotHeldAcrossFetch ==
    /\ \A g \in Walkers : klock = g => kw[g].pc \in {"reading", "publishing"}
    /\ (\E g \in Walkers : kw[g].pc # "idle") => ENABLED KStep

\* in the cached stack one walk is publishing its advance while the other,
\* having fetched and verified a round, waits for the mutex to publish its own
C30_Witness ==
    /\ kcached
    /\ kw["g1"].pc = "publishing" /\ klock = "g1"
    /\ kw["g2"].pc = "relocking" /\ kw["g2"].checked > 0

\* C36: in strict mode, the indirect client serving the genuine chain, the
\* lookup of the trusted previous signature for round r >= 2 returns the
\* signature of round r-1 without error, whatever the point of trust: none
\* stored, one of round r, or one that earlier walks have moved.
C36_TrustedPreviousFound ==
    \A g \in Walkers :
        (kw[g].pc = "done" /\ kw[g].round >= 2 /\ kw[g].err # "could not get round")
            => (kw[g].err = "" /\ kw[g].ps = Sig(kw[g].round - 1))

\* C40: with full chain verification, every result Get(r) returns on the
\* assembled client has passed a verifying client in strict mode: an entry
\* enters the shared cache only after that, so a result answered from the
\* cache has passed it too.
C40_CacheHitsWereVerified == (aout.op = "Get" /\ aout.ok) => aout.walked

(***************************************************************************)
(* HTTP heartbeat: specification (MeasureHeartbeats, startObserve)         *)
(***************************************************************************)
\* MeasureHeartbeats(ctx, c) has returned: the goroutine runs when c is not
\* empty
HeartInit ==
    /\ mclients \in ClientLists
    /\ mnext = 0
    /\ mctx = "live"
    /\ mpc = IF Len(mclients) > 0 THEN "check" ELSE "none"
    /\ mlast = NoTurn
    /\ BuilderIdle
    /\ CacheIdle
    /\ VerifyIdle
    /\ ValidatorIdle
    /\ GossipIdle
    /\ HttpIdle
    /\ OptIdle
    /\ MergeIdle
    /\ AggIdle
    /\ WalkIdle
    /\ RelayIdle
    /\ PipeIdle

\* the context of the heartbeat is cancelled
MCancel ==
    /\ mctx = "live"
    /\ mctx' = "cancelled"
    /\ UNCHANGED <<mclients, mnext, mpc, mlast>>
    /\ UNCHANGED <<bvars, cvars, vvars, rvars, gvars, hvars, ovars, wvars, avars, kvars, nvars, pvars>>

\* the head of the loop: return when ctx.Err() != nil, else sleep
MCheck ==
    /\ mpc = "check"
    /\ mpc' = IF mctx = "cancelled" THEN "returned" ELSE "sleep"
    /\ UNCHANGED <<mclients, mnext, mctx, mlast>>
    /\ UNCHANGED <<bvars, cvars, vvars, rvars, gvars, hvars, ovars, wvars, avars, kvars, nvars, pvars>>

\* the rest of a turn, after the sleep: client n = c.next % len(c.clients) is
\* skipped when it is no *httpClient, else probed with a Get that fails or not
MTurn(fails) ==
    /\ mpc = "sleep"
    /\ LET n == mnext % Len(mclients)
       IN IF mclients[n + 1] # "http"
          THEN /\ mnext' = Incremented(mnext, Len(mclients))
               /\ mlast' = [any |-> TRUE, n |-> n, probed |-> FALSE, failed |-> FALSE]
          ELSE IF fails
          THEN /\ mnext' = AfterFailure(mnext, Len(mclients))
               /\ mlast' = [any |-> TRUE, n |-> n, probed |-> TRUE, failed |-> TRUE]
          ELSE /\ mnext' = Incremented(mnext, Len(mclients))
               /\ mlast' = [any |-> TRUE, n |-> n, probed |-> TRUE, failed |-> FALSE]
    /\ mpc' = "check"
    /\ UNCHANGED <<mclients, mctx>>
    /\ UNCHANGED <<bvars, cvars, vvars, rvars, gvars, hvars, ovars, wvars, avars, kvars, nvars, pvars>>

HeartNext ==
    \/ MCancel
    \/ MCheck
    \/ \E fails \in BOOLEAN : MTurn(fails)

HeartSpec == HeartInit /\ [][HeartNext]_vars

\* C35: the heartbeat checks all clients in turn, in round-robin order: the
\* turn after the one of client n is the turn of client n+1 (of the first
\* client after the last), also when the probe of client n failed.
C35_RoundRobin ==
    [][(mpc = "sleep" /\ mpc' = "check" /\ mlast.any)
          => mlast'.n = (mlast.n + 1) % Len(mclients)]_vars

(***************************************************************************)
(* Gossip relay node: specification (GossipRelayNode.background, Shutdown) *)
(***************************************************************************)
\* NewGossipRelayNode has returned: background runs and is about to call Watch
RelayInit ==
    /\ npc = "watch"
    /\ nch = NoChan
    /\ nsrc \in RelaySources
    /\ ndone = FALSE
    /\ ncons = <<>>
    /\ npub = <<>>
    /\ BuilderIdle
    /\ CacheIdle
    /\ VerifyIdle
    /\ ValidatorIdle
    /\ GossipIdle
    /\ HttpIdle
    /\ OptIdle
    /\ MergeIdle
    /\ AggIdle
    /\ WalkIdle
    /\ HeartIdle
    /\ PipeIdle

\* results := w.Watch(ctx)
NWatch ==
    /\ npc = "watch"
    /\ npc' = "select"
    /\ nch' = [items |-> <<>>, closed |-> FALSE, gen |-> IF nch.gen = 1 THEN 2 ELSE 1]
    /\ UNCHANGED <<nsrc, ndone, ncons, npub>>
    /\ UNCHANGED <<bvars, cvars, vvars, rvars, gvars, hvars, ovars, wvars, avars, kvars, mvars, pvars>>

\* the client behind the relay sends its next result on the channel it
\* returned last, which holds one result at most
NSend ==
    /\ nch.gen # 0
    /\ ~nch.closed
    /\ nch.items = <<>>
    /\ nsrc # <<>>
    /\ nch' = [nch EXCEPT !.items = <<[Head(nsrc) EXCEPT !.ch = nch.gen]>>]
    /\ nsrc' = Tail(nsrc)
    /\ UNCHANGED <<npc, ndone, ncons, npub>>
    /\ UNCHANGED <<bvars, cvars, vvars, rvars, gvars, hvars, ovars, wvars, avars, kvars, mvars, pvars>>

\* the client behind the relay closes the channel it returned last
NUpClose ==
    /\ nch.gen # 0
    /\ ~nch.closed
    /\ nch' = [nch EXCEPT !.closed = TRUE]
    /\ UNCHANGED <<npc, nsrc, ndone, ncons, npub>>
    /\ UNCHANGED <<bvars, cvars, vvars, rvars, gvars, hvars, ovars, wvars, avars, kvars, mvars, pvars>>

\* case res, ok := <-results with ok: a *RandomData is marshalled and handed to
\* g.t.Publish, a result of another type is logged and left
NReceive ==
    /\ npc = "select"
    /\ nch.items # <<>>
    /\ nch' = [nch EXCEPT !.items = Tail(@)]
    /\ ncons' = Append(ncons, Head(nch.items))
    /\ npub' = IF IsRandomData(Head(nch.items)) THEN Append(npub, Head(nch.items)) ELSE npub
    /\ UNCHANGED <<npc, nsrc, ndone>>
    /\ UNCHANGED <<bvars, cvars, vvars, rvars, gvars, hvars, ovars, wvars, avars, kvars, mvars, pvars>>

\* case res, ok := <-results with !ok: break LOOP
NSeeClosed ==
    /\ npc = "select"
    /\ nch.items = <<>>
    /\ nch.closed
    /\ npc' = AfterClose
    /\ UNCHANGED <<nch, nsrc, ndone, ncons, npub>>
    /\ UNCHANGED <<bvars, cvars, vvars, rvars, gvars, hvars, ovars, wvars, avars, kvars, mvars, pvars>>

\* time.Sleep(time.Second) is over
NWake ==
    /\ npc = "sleep"
    /\ npc' = "watch"
    /\ UNCHANGED <<nch, nsrc, ndone, ncons, npub>>
    /\ UNCHANGED <<bvars, cvars, vvars, rvars, gvars, hvars, ovars, wvars, avars, kvars, mvars, pvars>>

\* case <-g.done: return
NDoneCase ==
    /\ npc = "select"
    /\ ndone
    /\ npc' = "returned"
    /\ UNCHANGED <<nch, nsrc, ndone, ncons, npub>>
    /\ UNCHANGED <<bvars, cvars, vvars, rvars, gvars, hvars, ovars, wvars, avars, kvars, mvars, pvars>>

\* Shutdown: close(g.done)
NShutdown ==
    /\ ~ndone
    /\ ndone' = TRUE
    /\ UNCHANGED <<npc, nch, nsrc, ncons, npub>>
    /\ UNCHANGED <<bvars, cvars, vvars, rvars, gvars, hvars, ovars, wvars, avars, kvars, mvars, pvars>>

RelayNext ==
    \/ NWatch
    \/ NSend
    \/ NUpClose
    \/ NReceive
    \/ NSeeClosed
    \/ NWake
    \/ NDoneCase
    \/ NShutdown

RelaySpec == RelayInit /\ [][RelayNext]_vars

\* the goroutine of background is scheduled, and its select, which picks at
\* random among the cases that are ready, does not leave the case <-g.done
\* aside for ever
RelayFairSpec ==
    /\ RelaySpec
    /\ WF_vars(NWatch) /\ WF_vars(NReceive) /\ WF_vars(NSeeClosed) /\ WF_vars(NWake)
    /\ SF_vars(NDoneCase)

\* a result that is in the watch channel is consumed, unless Shutdown is called
C34_Consumes == (nch.items # <<>>) ~> (nch.items = <<>> \/ ndone)

\* when the watch channel is closed the relay calls Watch again, unless
\* Shutdown is called
C34_WatchesAgain ==
    \A b \in {1, 2} : (nch.gen = b /\ nch.closed) ~> (nch.gen # b \/ ndone)

\* after Shutdown the goroutine returns, and it returns only then; once it has
\* returned it consumes nothing
C34_StopsAfterShutdown ==
    /\ ndone ~> (npc = "returned")
    /\ [](npc = "returned" => ndone)
    /\ [][npc = "returned" => ncons' = ncons]_vars

\* C34 as stated: the relay node keeps its upstream alive: when the watch
\* channel closes and Shutdown has not been called it calls Watch again, so
\* the results available over successive channels are all consumed and
\* published; after Shutdown it stops consuming.
C34_AllConsumedAndPublished ==
    /\ C34_Consumes
    /\ C34_WatchesAgain
    /\ C34_StopsAfterShutdown
    /\ [](npub = ncons)

\* C34 (amended): the relay node keeps its upstream alive: when the watch
\* channel closes and Shutdown has not been called it calls Watch again, so
\* the results available over successive channels are all consumed, and those
\* that are a *RandomData are handed to Publish, the others being logged and
\* left; after Shutdown it stops consuming.
C34_KeepsUpstreamAlive ==
    /\ C34_Consumes
    /\ C34_WatchesAgain
    /\ C34_StopsAfterShutdown
    /\ [](npub = SelectSeq(ncons, IsRandomData))

\* results were consumed from two channels, the second returned by a Watch
\* called after the first was closed; one of them, of another type, was not
\* handed to Publish
C34_Witness ==
    /\ \E i, j \in 1..Len(ncons) : i < j /\ ncons[i].ch # ncons[j].ch
    /\ npub # <<>>
    /\ Len(npub) < Len(ncons)

(***************************************************************************)
(* The channels of Watch on a caching client over an HTTP client:          *)
(* PollingWatcher -> ch -> httpClient.Watch -> out -> cachingClient.Watch  *)
(* -> out -> consumer. The HTTP client is not closed (h.done stays open).  *)
(***************************************************************************)
\* cachingClient.Watch(ctx) has returned: it has called httpClient.Watch, whose
\* goroutine is about to call PollingWatcher, and its own goroutine is ranging
\* over the channel of the HTTP client
PipeInit ==
    /\ pctx = "live"
    /\ ppoll = "none"
    /\ pch = NoChan
    /\ phttp = "start"
    /\ pout = FALSE
    /\ pcache = "recv"
    /\ pout2 = FALSE
    /\ pgot = FALSE
    /\ BuilderIdle
    /\ CacheIdle
    /\ VerifyIdle
    /\ ValidatorIdle
    /\ GossipIdle
    /\ HttpIdle
    /\ OptIdle
    /\ MergeIdle
    /\ AggIdle
    /\ WalkIdle
    /\ HeartIdle
    /\ RelayIdle

\* the caller cancels the context it passed to Watch
PCancel ==
    /\ pctx = "live"
    /\ pctx' = "cancelled"
    /\ UNCHANGED <<ppoll, pch, phttp, pout, pcache, pout2, pgot>>
    /\ UNCHANGED <<bvars, cvars, vvars, rvars, gvars, hvars, ovars, wvars, avars, kvars, mvars, nvars>>

\* PollingWatcher, called by the goroutine of httpClient.Watch: the synchronous
\* Get fails and ch is returned closed, or its value is put in ch and the
\* polling goroutine is started
PStart(ok) ==
    /\ phttp = "start"
    /\ phttp' = "select"
    /\ pch' = IF ok THEN [pch EXCEPT !.items = <<1>>] ELSE [pch EXCEPT !.closed = TRUE]
    /\ ppoll' = IF ok THEN "wait" ELSE "returned"
    /\ UNCHANGED <<pctx, pout, pcache, pout2, pgot>>
    /\ UNCHANGED <<bvars, cvars, vvars, rvars, gvars, hvars, ovars, wvars, avars, kvars, mvars, nvars>>

\* the polling goroutine takes case <-ctx.Done(): it returns, closing ch
PPollDone ==
    /\ ppoll = "wait"
    /\ pctx = "cancelled"
    /\ ppoll' = "returned"
    /\ pch' = [pch EXCEPT !.closed = TRUE]
    /\ UNCHANGED <<pctx, phttp, pout, pcache, pout2, pgot>>
    /\ UNCHANGED <<bvars, cvars, vvars, rvars, gvars, hvars, ovars, wvars, avars, kvars, mvars, nvars>>

\* the polling goroutine takes the timer case (time.After, then t.C): the Get
\* succeeds and the goroutine goes on to ch <- r, or fails and it waits again
PPollTick(ok) ==
    /\ ppoll = "wait"
    /\ ppoll' = IF ok THEN "send" ELSE "wait"
    /\ UNCHANGED <<pctx, pch, phttp, pout, pcache, pout2, pgot>>
    /\ UNCHANGED <<bvars, cvars, vvars, rvars, gvars, hvars, ovars, wvars, avars, kvars, mvars, nvars>>

\* ch <- r in the polling goroutine: it goes through when ch has room
PPollSend ==
    /\ ppoll = "send"
    /\ Len(pch.items) < PollBuffer
    /\ pch' = [pch EXCEPT !.items = Append(@, 1)]
    /\ ppoll' = "wait"
    /\ UNCHANGED <<pctx, phttp, pout, pcache, pout2, pgot>>
    /\ UNCHANGED <<bvars, cvars, vvars, rvars, gvars, hvars, ovars, wvars, avars, kvars, mvars, nvars>>

\* the goroutine of httpClient.Watch takes case res, ok := <-in with ok and
\* goes on to out <- res
PHttpRecv ==
    /\ phttp = "select"
    /\ pch.items # <<>>
    /\ pch' = [pch EXCEPT !.items = Tail(@)]
    /\ phttp' = "send"
    /\ UNCHANGED <<pctx, ppoll, pout, pcache, pout2, pgot>>
    /\ UNCHANGED <<bvars, cvars, vvars, rvars, gvars, hvars, ovars, wvars, avars, kvars, mvars, nvars>>

\* the goroutine of httpClient.Watch finds in closed: it returns, closing out
PHttpInClosed ==
    /\ phttp = "select"
    /\ pch.items = <<>>
    /\ pch.closed
    /\ phttp' = "returned"
    /\ pout' = TRUE
    /\ UNCHANGED <<pctx, ppoll, pch, pcache, pout2, pgot>>
    /\ UNCHANGED <<bvars, cvars, vvars, rvars, gvars, hvars, ovars, wvars, avars, kvars, mvars, nvars>>

\* out <- res in the goroutine of httpClient.Watch: out has no buffer, the send
\* goes through when the goroutine of cachingClient.Watch is receiving
PHttpSend ==
    /\ phttp = "send"
    /\ pcache = "recv"
    /\ phttp' = "select"
    /\ pcache' = "got"
    /\ UNCHANGED <<pctx, ppoll, pch, pout, pout2, pgot>>
    /\ UNCHANGED <<bvars, cvars, vvars, rvars, gvars, hvars, ovars, wvars, avars, kvars, mvars, nvars>>

\* the range of cachingClient.Watch ends, in being closed: close(out)
PCacheInClosed ==
    /\ pcache = "recv"
    /\ pout
    /\ pcache' = "returned"
    /\ pout2' = TRUE
    /\ UNCHANGED <<pctx, ppoll, pch, phttp, pout, pgot>>
    /\ UNCHANGED <<bvars, cvars, vvars, rvars, gvars, hvars, ovars, wvars, avars, kvars, mvars, nvars>>

\* the body of the range: break and close(out) when ctx.Err() != nil, else
\* c.cache.Add and on to out <- result
PCacheCheck ==
    /\ pcache = "got"
    /\ pcache' = IF pctx = "cancelled" THEN "returned" ELSE "send"
    /\ pout2' = (pctx = "cancelled")
    /\ UNCHANGED <<pctx, ppoll, pch, phttp, pout, pgot>>
    /\ UNCHANGED <<bvars, cvars, vvars, rvars, gvars, hvars, ovars, wvars, avars, kvars, mvars, nvars>>

\* the consumer receives from the channel cachingClient.Watch returned, which
\* has no buffer: out <- result goes through
PReceive ==
    /\ pcache = "send"
    /\ pcache' = "recv"
    /\ pgot' = TRUE
    /\ UNCHANGED <<pctx, ppoll, pch, phttp, pout, pout2>>
    /\ UNCHANGED <<bvars, cvars, vvars, rvars, gvars, hvars, ovars, wvars, avars, kvars, mvars, nvars>>

\* a step of one of the three goroutines
PGoroutineStep ==
    \/ \E ok \in BOOLEAN : PStart(ok)
    \/ PPollDone
    \/ \E ok \in BOOLEAN : PPollTick(ok)
    \/ PPollSend
    \/ PHttpRecv
    \/ PHttpInClosed
    \/ PHttpSend
    \/ PCacheInClosed
    \/ PCacheCheck

PipeNext ==
    \/ PCancel
    \/ PGoroutineStep
    \/ PReceive

PipeSpec == PipeInit /\ [][PipeNext]_vars

\* C32: once the context passed to Watch is cancelled, the channel of the HTTP
\* client's Watch and the channel of the caching client's Watch are closed and
\* their goroutines return without the consumer receiving from the channel:
\* until both are closed, one of the goroutines can take a step.
C32_ClosesWithoutConsumer ==
    (pctx = "cancelled" /\ ~(pout /\ pout2)) => ENABLED PGoroutineStep

====
